---- MODULE Spec2Model ----
(***************************************************************************)
(* Maskify (PanicTitan/maskify): the App component's state (App.tsx), the  *)
(* segmentation post-processing of useTransformers.ts and the rendering of *)
(* Sidebar.tsx, as a state machine.                                        *)
(*                                                                         *)
(* One step of the model is one browser task: an event handler or the      *)
(* settlement of a promise, the React render pass its state updates cause, *)
(* and the effects that render pass runs (whose own state updates cause    *)
(* one more render pass).  State updates made in one task are batched into *)
(* one render pass.                                                        *)
(***************************************************************************)
EXTENDS Integers, Sequences, FiniteSets, TLC

VARIABLES
    appMode,                \* App.tsx:38   "points" | "images"
    baseImage,              \* App.tsx:39   BaseImageData | null (NoImage)
    segmentationPoints,     \* App.tsx:40   PointData[] (a point is its id)
    maskData,               \* App.tsx:43   MaskData | null (NoMask)
    showMask,               \* App.tsx:44
    clipImagesGlobally,     \* App.tsx:45
    images,                 \* App.tsx:47   ImageData[]
    selectedShapeIds,       \* App.tsx:48
    isGeneratingEmbeddings, \* App.tsx:51
    isSamReady,             \* useTransformers.ts:83
    status,                 \* useTransformers.ts:82
    baseLoads,              \* loadImageHelper promises not yet settled (App.tsx:287)
    embReqs,                \* generateEmbeddings promises not yet settled (App.tsx:156)
    segReqs,                \* segmentWithPoints promises not yet settled (App.tsx:235)
    nextElement,            \* identity of the next HTMLImageElement created by loadImage
    nextPointId,            \* stands for crypto.randomUUID() of handleAddPoint
    nextImageId,            \* stands for crypto.randomUUID() of handleUploadImage
    imageReads,             \* FileReader reads of handleUploadImage not yet settled
    lastCall,               \* history: the layer-store call made by the last step
    segIn,                  \* inputs of the mask construction of segmentWithPointsImpl
    segOut,                 \* its locals and outputs
    stageSize,              \* App.tsx:50   <<width, height>> in pixels
    containerSize,          \* offsetWidth, offsetHeight of the canvas container
    isBgRemovalReady,       \* useTransformers.ts:84
    layerTasks,             \* background removals and tints not yet settled
    tasksStarted,           \* how many of them were started so far
    samLoad,                \* useTransformers.ts: locals of loadSam
    bgLoad,                 \* useTransformers.ts: locals of loadBgRemoval
    saving,                 \* App.tsx:52
    saveTimeouts,           \* setTimeout callbacks of saveStageImage not yet run
    triggerSaveSelection,   \* selectedShapeIds in the closure of handleTriggerSave
    konva,                  \* what saveStageImage wrote on the Konva nodes
    lastExport,             \* history: what the last stage.toDataURL was given
    selectionBox            \* App.tsx:57   the ref of the selection rectangle

vars == <<appMode, baseImage, segmentationPoints, maskData, showMask,
          clipImagesGlobally, images, selectedShapeIds, isGeneratingEmbeddings,
          isSamReady, status, baseLoads, embReqs, segReqs, nextElement,
          nextPointId, nextImageId, imageReads, lastCall, segIn, segOut,
          stageSize, containerSize, isBgRemovalReady, layerTasks, tasksStarted,
          samLoad, bgLoad, saving, saveTimeouts, triggerSaveSelection, konva,
          lastExport, selectionBox>>

sessionVars == <<appMode, baseImage, segmentationPoints, maskData, showMask,
                 clipImagesGlobally, isGeneratingEmbeddings, isSamReady, status,
                 baseLoads, embReqs, segReqs, nextElement, nextPointId>>

layerVars == <<images, selectedShapeIds, nextImageId, imageReads, lastCall>>

layerStore == <<images, selectedShapeIds, nextImageId, imageReads>>

maskVars == <<segIn, segOut>>

serviceVars == <<isBgRemovalReady, samLoad, bgLoad>>

\* what the handlers of the first sections never set
extVars == <<containerSize, layerTasks, tasksStarted, serviceVars>>

exportVars == <<saving, saveTimeouts, triggerSaveSelection, konva, lastExport>>

(***************************************************************************)
(* Bounds of the model.                                                    *)
(***************************************************************************)
\* points added in one run (handleAddPoint calls)
MaxPoints == 2
\* base-image uploads in one run (handleUploadBaseImage calls)
MaxUploads == 2
\* overlay layers uploaded in one run of the layer store
MaxLayers == 3
\* overlay layers uploaded in one run of the transform specification
MaxPatchLayers == 2
\* overlay layers uploaded in one run of the task specification
MaxTaskLayers == 2
\* overlay layers in the geometry, export and placement specifications
MaxGeoLayers == 1
\* overlay layers in the draw-list specification
MaxDrawLayers == 2
\* calls of handleRemoveBackground and handleAddColor that went on, in one run
MaxTaskStarts == 2
\* the setTimeout callbacks of saveStageImage pending at a time
MaxPendingSaves == 2
\* mask candidates returned by one segmentation call
MaxCandidates == 3
\* confidence scores are 0..MaxScore
MaxScore == 3
\* mask planes of the tensor in the clip-buffer specification
MaxMasks == 2
\* pixels of a mask plane
NumPixels == 2

\* data URLs a base-image file can decode to: the same file gives the same src
Srcs == {"A", "B"}

(***************************************************************************)
(* Helpers on sequences.                                                   *)
(***************************************************************************)
Reverse(s) == [i \in 1..Len(s) |-> s[Len(s) + 1 - i]]

RemoveAt(s, i) == [j \in 1..(Len(s) - 1) |-> IF j < i THEN s[j] ELSE s[j + 1]]

InsertAt(s, i, e) ==
    [j \in 1..(Len(s) + 1) |-> IF j < i THEN s[j] ELSE IF j = i THEN e ELSE s[j - 1]]

Range(s) == {s[i] : i \in 1..Len(s)}

\* Array.prototype.filter with the predicate "element # e"
FilterOut(s, e) == SelectSeq(s, LAMBDA x : x # e)

(***************************************************************************)
(* Values.                                                                 *)
(***************************************************************************)
\* baseImage === null; baseImage?.src is then undefined ("none").
\* embeddings / processedResult: 0 is undefined, e > 0 is the result computed
\* from the image element e.
NoImage == [src |-> "none", element |-> 0, embeddings |-> 0, processedResult |-> 0]

\* maskData === null.  A MaskData holds both canvases, computed from the image
\* element `element` and the point list `points`.
NoMask == [element |-> 0, points |-> <<>>]

\* A JavaScript value of a transform field: a number v that is not NaN (in
\* thousandths for the relative fields, in degrees for rotation), NaN, or the
\* property being absent from the object (reads as undefined).
Num(v) == [k |-> "num", v |-> v]

NaN == [k |-> "NaN", v |-> 0]

Absent == [k |-> "absent", v |-> 0]

TransformFields == {"relX", "relY", "relWidth", "relHeight", "rotation"}

NoAttrs == [f \in TransformFields |-> Absent]

\* useTransformers.ts: loadSam / loadBgRemoval before the first attempt.
\* backendIndex counts from 0; tried lists the backendIndex of every attempt made;
\* state is "loading", "ready" (the loop was left by break) or "failed".
NoLoad == [backendIndex |-> 0, tried |-> <<>>, state |-> "loading"]

\* lastCall when the last step called no operation of the layer store
NoCall == [op |-> "none", id |-> 0, target |-> 0, attrs |-> NoAttrs]

(***************************************************************************)
(* The stage size.                                                         *)
(***************************************************************************)
\* originalWidth, originalHeight of the base image decoded from a data URL
OriginalSize(src) == IF src = "A" THEN <<400, 200>> ELSE <<200, 400>>

\* App.tsx: calculateStageSize of the Stage Resizing Effect, for the container's
\* <<offsetWidth, offsetHeight>> (divisions are rounded down)
CalculateStageSize(container, image) ==
    LET containerWidth == container[1]
        containerHeight == container[2]
        fill == <<IF containerWidth = 0 THEN 500 ELSE containerWidth,
                  IF containerHeight = 0 THEN 500 ELSE containerHeight>>
        imgW == OriginalSize(image.src)[1]
        imgH == OriginalSize(image.src)[2]
    IN  IF image.element = 0
        THEN fill
        ELSE IF imgW = 0 \/ imgH = 0
             THEN fill
             ELSE IF containerWidth * imgH <= containerHeight * imgW
                  THEN <<containerWidth, (imgH * containerWidth) \div imgW>>
                  ELSE <<(imgW * containerHeight) \div imgH, containerHeight>>

(***************************************************************************)
(* The Konva nodes between two exports.  Canvas.tsx gives its nodes no      *)
(* visible property (but the selection rectangle), so that a render leaves  *)
(* what saveStageImage wrote with hide() and show() as it is, as long as    *)
(* the node stays mounted.                                                  *)
(***************************************************************************)
ValidStage(stage) == stage[1] > 0 /\ stage[2] > 0

\* Canvas.tsx: getBaseImageAttrs returns attributes (not null)
getBaseImageAttrs(p) == p.baseImage.element # 0 /\ ValidStage(p.stageSize)

\* the transformer as the Canvas effect left it (set = FALSE), or as
\* saveStageImage set it afterwards
NoTransformerWrite == [set |-> FALSE, visible |-> FALSE, nodes |-> <<>>]

\* hidden: the point markers and the mask overlay hidden by hide()
NoKonva == [hidden |-> {}, transformer |-> NoTransformerWrite]

\* before the first stage.toDataURL
NoExport == [captured |-> <<>>, src |-> "none", mime |-> "", mimeType |-> <<"", "">>]

\* App.tsx: the initial value of the selectionBox ref (pixels)
NoSelectionBox == [x1 |-> 0, y1 |-> 0, x2 |-> 0, y2 |-> 0, visible |-> FALSE]

\* App.tsx, Canvas.tsx: the first render
InitExport ==
    /\ selectionBox = NoSelectionBox
    /\ saving = FALSE
    /\ saveTimeouts = <<>>
    /\ triggerSaveSelection = <<>>
    /\ konva = NoKonva
    /\ lastExport = NoExport

\* Canvas.tsx: the ".point-marker" nodes and the "#mask-overlay" node of the
\* stage (renderPoints, renderMaskOverlay)
MountedNodes(p) ==
    (IF p.appMode = "points" /\ p.baseImage # NoImage /\ getBaseImageAttrs(p)
     THEN {<<"point", p.points[i]>> : i \in 1..Len(p.points)} ELSE {}) \cup
    (IF getBaseImageAttrs(p) /\ p.maskData # NoMask /\ p.showMask
     THEN {<<"mask", 0>>} ELSE {})

\* The render pass after a step that is not a step of saveStageImage.  A node
\* that is unmounted loses what was written on it; the transformer effect of
\* Canvas.tsx (dependencies selectedShapeIds, appMode, images) sets the
\* transformer anew; a change of appMode unmounts the transformer a pending
\* callback holds; handleTriggerSave (dependency baseImage) is created anew
\* and closes over the selectedShapeIds of that render.  mutated is history:
\* the selection or the mode changed since the callback was set.
RenderedKonva ==
    /\ konva' =
         IF konva = NoKonva THEN konva
         ELSE [hidden |-> konva.hidden \cap
                          MountedNodes([appMode |-> appMode', baseImage |-> baseImage',
                                        points |-> segmentationPoints',
                                        maskData |-> maskData', showMask |-> showMask',
                                        stageSize |-> stageSize']),
               transformer |-> IF \/ selectedShapeIds' # selectedShapeIds
                                  \/ appMode' # appMode
                                  \/ images' # images
                               THEN NoTransformerWrite
                               ELSE konva.transformer]
    /\ saveTimeouts' =
         [i \in 1..Len(saveTimeouts) |->
            [saveTimeouts[i] EXCEPT
                !.transformer = @ /\ appMode' = appMode,
                !.mutated = @ \/ selectedShapeIds' # selectedShapeIds
                              \/ appMode' # appMode]]
    /\ triggerSaveSelection' =
         IF baseImage' = baseImage THEN triggerSaveSelection ELSE selectedShapeIds'
    /\ UNCHANGED <<saving, lastExport>>

\* ... that is not a pointer event on the stage either
AfterRender == RenderedKonva /\ UNCHANGED selectionBox

(***************************************************************************)
(* The App state one render pass sees, as a record.                        *)
(***************************************************************************)
Cur ==
    [appMode |-> appMode, baseImage |-> baseImage,
     segmentationPoints |-> segmentationPoints, maskData |-> maskData,
     showMask |-> showMask, clipImagesGlobally |-> clipImagesGlobally,
     isGeneratingEmbeddings |-> isGeneratingEmbeddings, isSamReady |-> isSamReady,
     status |-> status, embReqs |-> embReqs, segReqs |-> segReqs]

Apply(s) ==
    /\ appMode' = s.appMode
    /\ baseImage' = s.baseImage
    /\ segmentationPoints' = s.segmentationPoints
    /\ maskData' = s.maskData
    /\ showMask' = s.showMask
    /\ clipImagesGlobally' = s.clipImagesGlobally
    /\ isGeneratingEmbeddings' = s.isGeneratingEmbeddings
    /\ isSamReady' = s.isSamReady
    /\ status' = s.status
    /\ embReqs' = s.embReqs
    /\ segReqs' = s.segReqs

\* Sidebar.tsx: isProcessingAny, which disables the sidebar's controls
SidebarProcessing ==
    isGeneratingEmbeddings \/ \E i \in 1..Len(images) : images[i].isRemovingBg

\* Sidebar.tsx: the points list is rendered with points.reverse(), which
\* reverses the array it is given, the segmentationPoints state, in place.
SidebarRender(s) ==
    IF s.appMode = "points" /\ s.baseImage # NoImage
    THEN [s EXCEPT !.segmentationPoints = Reverse(@)]
    ELSE s

\* App.tsx: Generate Embeddings Effect, run when one of its dependencies
\* [isSamReady, baseImage?.src, generateEmbeddings] differs from the last render.
EmbeddingEffect(prev, s) ==
    IF prev.isSamReady = s.isSamReady /\ prev.baseImage.src = s.baseImage.src
    THEN s
    ELSE IF s.isSamReady /\ s.baseImage # NoImage /\ s.baseImage.embeddings = 0
         THEN [s EXCEPT !.isGeneratingEmbeddings = TRUE,
                        !.embReqs = Append(@, [src |-> s.baseImage.src,
                                               element |-> s.baseImage.element]),
                        !.status = "Generating image embeddings..."]
         ELSE s

\* App.tsx: Segmentation Effect.  newPoints: the handler stored a new
\* segmentationPoints array.  r is the render pass the effect closes over.
SegmentationEffect(prev, r, s, newPoints) ==
    IF /\ ~newPoints
       /\ prev.baseImage.embeddings = r.baseImage.embeddings
       /\ prev.baseImage.processedResult = r.baseImage.processedResult
       /\ prev.baseImage.src = r.baseImage.src
       /\ prev.isSamReady = r.isSamReady
    THEN s
    ELSE IF r.segmentationPoints = <<>> /\ r.maskData # NoMask
         THEN [s EXCEPT !.maskData = NoMask, !.clipImagesGlobally = FALSE]
         ELSE IF /\ r.baseImage.embeddings # 0
                 /\ r.baseImage.processedResult # 0
                 /\ r.segmentationPoints # <<>>
                 /\ r.isSamReady
                 /\ r.baseImage # NoImage
              THEN [s EXCEPT !.segReqs = Append(@, [src |-> r.baseImage.src,
                                                    element |-> r.baseImage.element,
                                                    points |-> r.segmentationPoints]),
                             !.status = "Segmenting image..."]
              ELSE s

\* One task's state updates s (prev is the state of the last render): the
\* render pass, the effects, and the render pass the effects' updates cause.
Commit(prev, s, newPoints) ==
    IF s = prev /\ ~newPoints
    THEN s
    ELSE LET r == SidebarRender(s)
             e == SegmentationEffect(prev, r, EmbeddingEffect(prev, r), newPoints)
         IN  IF e = r THEN r ELSE SidebarRender(e)

(***************************************************************************)
(* Segmentation session: actions.                                          *)
(***************************************************************************)
\* what a step of the segmentation session leaves alone
SessionFrame ==
    /\ lastCall' = NoCall
    /\ stageSize' = IF baseImage' = baseImage
                    THEN stageSize
                    ELSE CalculateStageSize(containerSize, baseImage')
    /\ UNCHANGED <<layerStore, maskVars, extVars>>
    /\ AfterRender

\* useTransformers.ts: loadSam succeeded
SamLoaded ==
    /\ ~isSamReady
    /\ Apply(Commit(Cur, [Cur EXCEPT !.isSamReady = TRUE,
                                     !.status = "SAM ready. Loading BG Removal..."],
                    FALSE))
    /\ UNCHANGED <<baseLoads, nextElement, nextPointId>>
    /\ SessionFrame

\* App.tsx: handleUploadBaseImage, up to the await
handleUploadBaseImage(src) ==
    /\ isSamReady /\ ~SidebarProcessing       \* Sidebar.tsx: button disabled
    /\ nextElement <= MaxUploads
    /\ Apply(Commit(Cur, [Cur EXCEPT !.baseImage = NoImage,
                                     !.segmentationPoints = <<>>,
                                     !.maskData = NoMask,
                                     !.clipImagesGlobally = FALSE],
                    TRUE))
    /\ selectedShapeIds' = <<>>
    /\ baseLoads' = Append(baseLoads, [src |-> src, element |-> nextElement])
    /\ nextElement' = nextElement + 1
    /\ lastCall' = NoCall
    /\ stageSize' = IF baseImage' = baseImage
                    THEN stageSize
                    ELSE CalculateStageSize(containerSize, baseImage')
    /\ UNCHANGED <<nextPointId, images, nextImageId, imageReads, maskVars, extVars>>
    /\ AfterRender

UploadBaseImage == \E src \in Srcs : handleUploadBaseImage(src)

\* App.tsx: handleUploadBaseImage, after loadImageHelper resolved
BaseImageLoaded(i) ==
    /\ i \in 1..Len(baseLoads)
    /\ Apply(Commit(Cur, [Cur EXCEPT !.baseImage = [src |-> baseLoads[i].src,
                                                    element |-> baseLoads[i].element,
                                                    embeddings |-> 0,
                                                    processedResult |-> 0],
                                     !.appMode = "points"],
                    FALSE))
    /\ baseLoads' = RemoveAt(baseLoads, i)
    /\ UNCHANGED <<nextElement, nextPointId>>
    /\ SessionFrame

\* App.tsx: handleUploadBaseImage, loadImageHelper rejected (catch)
BaseImageLoadFailed(i) ==
    /\ i \in 1..Len(baseLoads)
    /\ baseLoads' = RemoveAt(baseLoads, i)
    /\ UNCHANGED <<appMode, baseImage, segmentationPoints, maskData, showMask,
                   clipImagesGlobally, isGeneratingEmbeddings, isSamReady, status,
                   embReqs, segReqs, nextElement, nextPointId>>
    /\ SessionFrame

BaseImageSettled ==
    \E i \in 1..Len(baseLoads) : BaseImageLoaded(i) \/ BaseImageLoadFailed(i)

\* App.tsx: generateEmbeddings(...).then(...).finally(...); ok = FALSE is the
\* null result generateEmbeddingsImpl returns on any failure.
EmbeddingsSettled(i, ok) ==
    /\ i \in 1..Len(embReqs)
    /\ LET req == embReqs[i]
           applied == baseImage # NoImage /\ baseImage.src = req.src /\ ok
       IN  Apply(Commit(Cur,
               [Cur EXCEPT
                   !.baseImage = IF applied
                                 THEN [@ EXCEPT !.embeddings = req.element,
                                                !.processedResult = req.element]
                                 ELSE @,
                   !.status = IF ok THEN "Embeddings generated."
                                    ELSE "Embedding error",
                   !.isGeneratingEmbeddings = FALSE,
                   !.embReqs = RemoveAt(@, i)],
               FALSE))
    /\ UNCHANGED <<baseLoads, nextElement, nextPointId>>
    /\ SessionFrame

EmbeddingsDone == \E i \in 1..Len(embReqs), ok \in BOOLEAN : EmbeddingsSettled(i, ok)

\* App.tsx: handleAddPoint, called by Canvas.tsx handleInternalStageClick
handleAddPoint ==
    /\ appMode = "points" /\ baseImage # NoImage     \* Canvas.tsx:201-205
    /\ nextPointId <= MaxPoints
    /\ Apply(Commit(Cur, [Cur EXCEPT !.segmentationPoints = Append(@, nextPointId),
                                     !.showMask = TRUE],
                    TRUE))
    /\ nextPointId' = nextPointId + 1
    /\ UNCHANGED <<baseLoads, nextElement>>
    /\ SessionFrame

\* App.tsx: handleRemovePoint, called by the sidebar's remove button
handleRemovePoint(id) ==
    /\ appMode = "points" /\ baseImage # NoImage     \* Sidebar.tsx: list shown
    /\ ~SidebarProcessing                            \* Sidebar.tsx: button disabled
    /\ id \in Range(segmentationPoints)
    /\ Apply(Commit(Cur, [Cur EXCEPT !.segmentationPoints = FilterOut(@, id)], TRUE))
    /\ UNCHANGED <<baseLoads, nextElement, nextPointId>>
    /\ SessionFrame

RemovePoint == \E id \in 1..MaxPoints : handleRemovePoint(id)

\* App.tsx: segmentWithPoints(...).then(...); ok = FALSE is the null result
\* segmentWithPointsImpl returns on any failure.
SegmentationSettled(i, ok) ==
    /\ i \in 1..Len(segReqs)
    /\ LET req == segReqs[i]
           newMask == IF ok THEN [element |-> req.element, points |-> req.points]
                            ELSE NoMask
           st == [Cur EXCEPT !.status = IF ok THEN "Segmentation done."
                                              ELSE "Segmentation error",
                             !.segReqs = RemoveAt(@, i)]
       IN  Apply(Commit(Cur,
               IF baseImage.src = req.src
               THEN [st EXCEPT !.maskData = newMask]
               ELSE [st EXCEPT !.maskData = NoMask, !.clipImagesGlobally = FALSE],
               FALSE))
    /\ UNCHANGED <<baseLoads, nextElement, nextPointId>>
    /\ SessionFrame

SegmentationDone ==
    \E i \in 1..Len(segReqs), ok \in BOOLEAN : SegmentationSettled(i, ok)

\* App.tsx: handleToggleMask
handleToggleMask ==
    /\ baseImage # NoImage /\ ~SidebarProcessing     \* Sidebar.tsx: button shown, enabled
    /\ maskData # NoMask
    /\ Apply(Commit(Cur, [Cur EXCEPT !.showMask = ~@], FALSE))
    /\ UNCHANGED <<baseLoads, nextElement, nextPointId>>
    /\ SessionFrame

\* App.tsx: handleToggleGlobalClip
handleToggleGlobalClip ==
    /\ appMode = "images" /\ ~SidebarProcessing      \* Sidebar.tsx: button shown, enabled
    /\ maskData # NoMask
    /\ Apply(Commit(Cur, [Cur EXCEPT !.clipImagesGlobally = ~@], FALSE))
    /\ UNCHANGED <<baseLoads, nextElement, nextPointId>>
    /\ SessionFrame

\* App.tsx: handleToggleMode
handleToggleMode ==
    /\ ~SidebarProcessing                            \* Sidebar.tsx: button disabled
    /\ Apply(Commit(Cur, [Cur EXCEPT !.appMode = IF @ = "points" THEN "images"
                                                               ELSE "points"],
                    FALSE))
    /\ selectedShapeIds' = <<>>
    /\ lastCall' = NoCall
    /\ UNCHANGED <<baseLoads, nextElement, nextPointId>>
    /\ UNCHANGED <<images, nextImageId, imageReads, maskVars, stageSize, extVars>>
    /\ AfterRender

(***************************************************************************)
(* Segmentation session: claims.                                           *)
(***************************************************************************)
\* C1 (mask-absence invariant): whenever the point list is empty, maskData is
\* null, also when a segmentation request issued before the last point was
\* removed completes afterwards.
C1_MaskAbsence == segmentationPoints = <<>> => maskData = NoMask

\* C2: a segmentation or embedding result is stored only if its request was
\* issued for the base image that is live when it is stored.
C2_NoStaleResult ==
    [][ /\ (maskData' # maskData /\ maskData' # NoMask)
            => maskData'.element = baseImage'.element
        /\ (baseImage'.embeddings # baseImage.embeddings /\ baseImage'.embeddings # 0)
            => baseImage'.embeddings = baseImage'.element ]_vars

\* C3: every step that makes a new image the live base image ends with an
\* empty point list, no mask and the clip toggle off.
C3_ReplaceInvalidates ==
    [][ (baseImage' # NoImage /\ baseImage'.element # baseImage.element)
            => /\ segmentationPoints' = <<>>
               /\ maskData' = NoMask
               /\ ~clipImagesGlobally' ]_vars

\* C4: at most one embedding request and at most one segmentation request is
\* in flight at any time.
C4_OneInFlight == Len(embReqs) <= 1 /\ Len(segReqs) <= 1

\* C5 (level-triggered segmentation): once every segmentation request has
\* resolved, a stored mask of the live image is the one computed from the
\* latest point list.
C5_LatestMask ==
    (/\ segReqs = <<>>
     /\ maskData # NoMask
     /\ maskData.element = baseImage.element
     /\ segmentationPoints # <<>>)
        => Range(maskData.points) = Range(segmentationPoints)

\* point ids are handed out in increasing order: insertion order is id order
IsInsertionOrder(pts) == \A i, j \in 1..Len(pts) : i < j => pts[i] < pts[j]

\* C6: the stored point list is always in insertion order, and so is the
\* point list every segmentation request carries.
C6_InsertionOrder ==
    /\ IsInsertionOrder(segmentationPoints)
    /\ \A i \in 1..Len(segReqs) : IsInsertionOrder(segReqs[i].points)

\* the settlement of an embedding request of the live base image with a
\* failure: the request leaves the list and the status is the failure's
EmbeddingFailedStep ==
    /\ baseImage # NoImage
    /\ status' = "Embedding error"
    /\ \E i \in 1..Len(embReqs) :
          /\ embReqs[i].element = baseImage.element
          /\ embReqs' = RemoveAt(embReqs, i)

\* C28 (embedding failure is absorbed): when embedding generation for the
\* live base image fails, the embedding stays absent, the generating flag is
\* false afterwards, and the base image, the points and the layers are
\* unchanged; no segmentation request is issued while the embedding is absent,
\* and a point added in that state produces no mask and no request.
C28_EmbeddingFailureAbsorbed ==
    [][ /\ EmbeddingFailedStep
            => /\ baseImage' = baseImage
               /\ ~isGeneratingEmbeddings'
               /\ segmentationPoints' = segmentationPoints
               /\ images' = images
        /\ Len(segReqs') > Len(segReqs) => baseImage'.embeddings # 0
        /\ (baseImage' # NoImage /\ baseImage'.embeddings = 0
            /\ Len(segmentationPoints') > Len(segmentationPoints))
            => maskData' = maskData /\ segReqs' = segReqs ]_vars

\* C40: isGeneratingEmbeddings is true in every state with an embedding
\* request in flight; the completion of an older request does not clear the
\* flag while the request of a newer base image is running.
C40_FlagWhileGenerating == embReqs # <<>> => isGeneratingEmbeddings

\* C32: in every reachable state, clipImagesGlobally true implies that
\* maskData is non-null (a stored mask always holds its clip buffer): whatever
\* sets maskData to null also resets the clip toggle.
C32_ClipNeedsMask == clipImagesGlobally => maskData # NoMask

\* the completion of a segmentation request issued for a base image that has
\* since been replaced
StaleSegmentationStep ==
    \E i \in 1..Len(segReqs) :
        /\ segReqs' = RemoveAt(segReqs, i)
        /\ segReqs[i].element # baseImage.element
        /\ baseImage # NoImage

\* C33: the completion of a stale segmentation request leaves the maskData and
\* the clip toggle of the current base image as they are.
C33_StaleCompletionIgnored ==
    [][StaleSegmentationStep
        => maskData' = maskData /\ clipImagesGlobally' = clipImagesGlobally]_vars

(***************************************************************************)
(* Overlay layers (the images state of App.tsx).  Relative coordinates and *)
(* sizes are in thousandths of the stage, pixels and degrees are integers. *)
(***************************************************************************)
\* data URLs an overlay file reads to
LayerSrcs == {"P"}

\* stageSize <<width, height>> at the time an overlay's element loads
StageSizes == {<<1000, 1000>>}

\* <<naturalWidth, naturalHeight>> of an overlay's element; <<0, 0>> is the
\* empty element Canvas.tsx passes when loading failed
NaturalSizes == {<<400, 200>>, <<0, 0>>}

\* App.tsx: 0.2, here in percent
INITIAL_IMAGE_TARGET_FRACTION == 20

MIN_INITIAL_PIXEL_SIZE == 20

Max(a, b) == IF a >= b THEN a ELSE b

Min(a, b) == IF a <= b THEN a ELSE b

LayerIds(imgs) == {imgs[i].id : i \in 1..Len(imgs)}

\* Array.prototype.findIndex on the id, counting from 1; 0 stands for -1
FindIndex(imgs, id) ==
    IF id \in LayerIds(imgs)
    THEN CHOOSE i \in 1..Len(imgs) :
            /\ imgs[i].id = id
            /\ \A j \in 1..(i - 1) : imgs[j].id # id
    ELSE 0

\* App.tsx: placeholderImage of handleUploadImage (scaleX, scaleY stay 1)
Placeholder(id) ==
    [id |-> id, originalSrc |-> "", processedSrc |-> "", konvaImage |-> 0,
     relX |-> Num(500), relY |-> Num(500),
     relWidth |-> Num(100), relHeight |-> Num(100), rotation |-> Num(0),
     isLoading |-> TRUE, isRemovingBg |-> FALSE, isChangingColor |-> FALSE]

\* App.tsx: isValidNumber
isValidNumber(num) == num.k = "num"

\* A mutation of ValidateAttrs: the size fields are only checked to be numbers
ValidateAttrsNoSizeCheck(attrs) ==
    [f \in TransformFields |->
        IF attrs[f] # Absent /\ ~isValidNumber(attrs[f]) THEN Absent ELSE attrs[f]]

\* App.tsx: validatedAttrs of handleUpdateImageTransform
ValidateAttrs(attrs) ==
    [f \in TransformFields |->
        IF /\ attrs[f] # Absent
           /\ \/ ~isValidNumber(attrs[f])
              \/ (f \in {"relWidth", "relHeight"} /\ attrs[f].v <= 0)
        THEN Absent
        ELSE attrs[f]]

\* { ...t, ...validatedAttrs }
MergeAttrs(t, validatedAttrs) ==
    [g \in DOMAIN t |->
        IF g \in TransformFields /\ validatedAttrs[g] # Absent
        THEN validatedAttrs[g]
        ELSE t[g]]

\* App.tsx: the setImages updater of handleUpdateImageTransform
UpdateImageTransform(prev, id, attrs) ==
    [i \in 1..Len(prev) |->
        IF prev[i].id = id THEN MergeAttrs(prev[i], ValidateAttrs(attrs)) ELSE prev[i]]

\* A mutation of ReorderImages: the dragged layer and the target swap places
ReorderImagesSwap(prevImages, draggedId, droppedOnId) ==
    LET draggedIndex == FindIndex(prevImages, draggedId)
        droppedOnIndex == FindIndex(prevImages, droppedOnId)
    IN  IF draggedIndex = 0 \/ droppedOnIndex = 0 \/ draggedIndex = droppedOnIndex
        THEN prevImages
        ELSE [prevImages EXCEPT ![draggedIndex] = prevImages[droppedOnIndex],
                                ![droppedOnIndex] = prevImages[draggedIndex]]

\* A mutation of ReorderImages: the drop index is not adjusted for the removal
ReorderImagesNoAdjust(prevImages, draggedId, droppedOnId) ==
    LET draggedIndex == FindIndex(prevImages, draggedId)
        droppedOnIndex == FindIndex(prevImages, droppedOnId)
    IN  IF draggedIndex = 0 \/ droppedOnIndex = 0 \/ draggedIndex = droppedOnIndex
        THEN prevImages
        ELSE InsertAt(RemoveAt(prevImages, draggedIndex), droppedOnIndex,
                      prevImages[draggedIndex])

\* App.tsx: the setImages updater of handleReorderImages (indices from 1)
ReorderImages(prevImages, draggedId, droppedOnId) ==
    LET draggedIndex == FindIndex(prevImages, draggedId)
        droppedOnIndex == FindIndex(prevImages, droppedOnId)
    IN  IF draggedIndex = 0 \/ droppedOnIndex = 0 \/ draggedIndex = droppedOnIndex
        THEN prevImages
        ELSE LET itemToMove == prevImages[draggedIndex]
                 newImages == RemoveAt(prevImages, draggedIndex)
                 finalDropIndex == IF draggedIndex < droppedOnIndex
                                   THEN droppedOnIndex - 1
                                   ELSE droppedOnIndex
             IN  InsertAt(newImages, finalDropIndex, itemToMove)

\* App.tsx: initialRelWidth, initialRelHeight of handleLoadImageImage, in
\* thousandths (divisions are rounded down)
InitialRelSize(natural, stage) ==
    IF natural[1] > 0 /\ natural[2] > 0 /\ stage[1] > 0 /\ stage[2] > 0
    THEN LET wide == natural[1] >= natural[2]
             targetAbsWidth ==
                 IF wide THEN (stage[1] * INITIAL_IMAGE_TARGET_FRACTION) \div 100
                 ELSE (((stage[2] * INITIAL_IMAGE_TARGET_FRACTION) \div 100)
                        * natural[1]) \div natural[2]
             targetAbsHeight ==
                 IF wide THEN (((stage[1] * INITIAL_IMAGE_TARGET_FRACTION) \div 100)
                                * natural[2]) \div natural[1]
                 ELSE (stage[2] * INITIAL_IMAGE_TARGET_FRACTION) \div 100
             calculatedAbsWidth == Max(MIN_INITIAL_PIXEL_SIZE, targetAbsWidth)
             calculatedAbsHeight == Max(MIN_INITIAL_PIXEL_SIZE, targetAbsHeight)
         IN  <<Max(10, Min(1000, (calculatedAbsWidth * 1000) \div stage[1])),
               Max(10, Min(1000, (calculatedAbsHeight * 1000) \div stage[2]))>>
    ELSE <<100, 100>>

\* One render pass after a task that stored a new images array
Render(prev, s) == IF s = prev THEN SidebarRender(s) ELSE Commit(prev, s, FALSE)

\* what a step of the layer store does to the rest of the state
StoreFrame(s) ==
    /\ Apply(Render(Cur, s))
    /\ UNCHANGED <<baseLoads, nextElement, nextPointId, maskVars, stageSize>>

LayerFrame(s) == StoreFrame(s) /\ UNCHANGED extVars /\ AfterRender

(***************************************************************************)
(* Overlay layers: actions.                                                *)
(***************************************************************************)
\* App.tsx: handleUploadImage, up to reader.readAsDataURL
handleUploadImage ==
    /\ appMode = "images" /\ ~SidebarProcessing      \* Sidebar.tsx: button shown, enabled
    /\ nextImageId <= MaxLayers
    /\ images' = Append(images, Placeholder(nextImageId))
    /\ imageReads' = imageReads \cup {nextImageId}
    /\ nextImageId' = nextImageId + 1
    /\ lastCall' = [NoCall EXCEPT !.op = "upload", !.id = nextImageId]
    /\ UNCHANGED selectedShapeIds
    /\ LayerFrame(Cur)

\* App.tsx: what reader.onload stores for the layer it read
ReadImage(t, src) ==
    [t EXCEPT !.originalSrc = src, !.processedSrc = src, !.isLoading = FALSE]

\* App.tsx: what handleLoadImageImage stores for a layer without konvaImage.
\* konvaImage: 0 is undefined, 1 the element decoded from the file's data URL,
\* 2 the empty element that Canvas.tsx passes when loading failed, 3 and 4 the
\* elements decoded from the result of a background removal and of a tint.
LoadImageImage(t, natural, stage) ==
    [t EXCEPT !.konvaImage = IF natural[1] > 0 THEN 1 ELSE 2,
              !.relWidth = Num(InitialRelSize(natural, stage)[1]),
              !.relHeight = Num(InitialRelSize(natural, stage)[2])]

\* A mutation of ImageRead: the layer that was read is selected, be it in the
\* store or not
ImageReadSelects(id, src) ==
    /\ id \in imageReads
    /\ imageReads' = imageReads \ {id}
    /\ images' = [i \in 1..Len(images) |->
                    IF images[i].id = id THEN ReadImage(images[i], src) ELSE images[i]]
    /\ selectedShapeIds' = <<id>>
    /\ lastCall' = [NoCall EXCEPT !.op = "read", !.id = id]
    /\ UNCHANGED nextImageId
    /\ LayerFrame([Cur EXCEPT !.appMode = "images"])

\* App.tsx: reader.onload of handleUploadImage
ImageRead(id, src) ==
    /\ id \in imageReads
    /\ imageReads' = imageReads \ {id}
    /\ images' = [i \in 1..Len(images) |->
                    IF images[i].id = id THEN ReadImage(images[i], src) ELSE images[i]]
    /\ selectedShapeIds' = IF id \in LayerIds(images) THEN <<id>> ELSE selectedShapeIds
    /\ lastCall' = [NoCall EXCEPT !.op = "read", !.id = id]
    /\ UNCHANGED nextImageId
    /\ LayerFrame([Cur EXCEPT !.appMode = "images"])

\* App.tsx: reader.onerror of handleUploadImage; the throw is outside the try
ImageReadFailed(id) ==
    /\ id \in imageReads
    /\ imageReads' = imageReads \ {id}
    /\ lastCall' = NoCall
    /\ UNCHANGED <<images, selectedShapeIds, nextImageId>>
    /\ UNCHANGED sessionVars
    /\ UNCHANGED <<maskVars, stageSize, extVars>>
    /\ AfterRender

ImageReadSettled ==
    \E id \in imageReads : (\E src \in LayerSrcs : ImageRead(id, src)) \/ ImageReadFailed(id)

\* A mutation of handleRemoveImage: the selection is left as it is
handleRemoveImageKeepSelection(id) ==
    /\ appMode = "images" /\ ~SidebarProcessing
    /\ id \in LayerIds(images)
    /\ images' = SelectSeq(images, LAMBDA t : t.id # id)
    /\ selectedShapeIds' = selectedShapeIds
    /\ lastCall' = [NoCall EXCEPT !.op = "remove", !.id = id,
                                  !.target = IF id \in Range(selectedShapeIds) THEN 1 ELSE 0]
    /\ UNCHANGED <<nextImageId, imageReads>>
    /\ LayerFrame(Cur)

\* App.tsx: handleRemoveImage (target of lastCall: 1 if the layer was selected)
onRemoveImage(id) ==
    /\ id \in LayerIds(images)
    /\ images' = SelectSeq(images, LAMBDA t : t.id # id)
    /\ selectedShapeIds' = FilterOut(selectedShapeIds, id)
    /\ lastCall' = [NoCall EXCEPT !.op = "remove", !.id = id,
                                  !.target = IF id \in Range(selectedShapeIds) THEN 1 ELSE 0]
    /\ UNCHANGED <<nextImageId, imageReads>>
    /\ LayerFrame(Cur)

\* Sidebar.tsx: the remove button of a layer's row, which calls onRemoveImage
handleRemoveImage(id) ==
    /\ appMode = "images" /\ ~SidebarProcessing      \* Sidebar.tsx: button shown, enabled
    /\ onRemoveImage(id)

RemoveImage == \E id \in LayerIds(images) : handleRemoveImage(id)

\* App.tsx: handleReorderImages(draggedId, droppedOnId), called by handleDrop of
\* Sidebar.tsx; the ids are those of the store or one no layer has
handleReorderImages(draggedId, droppedOnId) ==
    /\ appMode = "images" /\ ~SidebarProcessing      \* Sidebar.tsx: list shown, draggable
    /\ images # <<>>
    /\ images' = ReorderImages(images, draggedId, droppedOnId)
    /\ lastCall' = [NoCall EXCEPT !.op = "reorder", !.id = draggedId,
                                  !.target = droppedOnId]
    /\ UNCHANGED <<selectedShapeIds, nextImageId, imageReads>>
    /\ LayerFrame(Cur)

DropImage ==
    \E draggedId, droppedOnId \in 1..nextImageId :
        handleReorderImages(draggedId, droppedOnId)

\* Canvas.tsx: renderImages draws a layer (isImageReady && arePropsValid)
IsRendered(t) ==
    /\ t.konvaImage \notin {0, 2}
    /\ \A f \in TransformFields : isValidNumber(t[f])

\* Values of the fields Canvas.tsx computes from the Konva node and stageSize:
\* always of type number, a number or NaN.
ValidPatch ==
    [relX |-> Num(250), relY |-> Num(250), relWidth |-> Num(300),
     relHeight |-> Num(300), rotation |-> Num(90)]

\* values handleUpdateImageTransform drops
BadValues(f) ==
    IF f \in {"relWidth", "relHeight"} THEN {Num(0), Num(-100), NaN} ELSE {NaN}

\* Canvas.tsx: handleDragEnd passes relX and relY only
DragPatches ==
    {[NoAttrs EXCEPT !.relX = x, !.relY = y] :
        x \in {Num(250), NaN}, y \in {Num(250), NaN}}

\* Canvas.tsx: handleTransformEnd passes the five fields: all valid, one
\* dropped, two dropped, all dropped
TransformPatches ==
    {ValidPatch}
    \cup UNION {{[ValidPatch EXCEPT ![f] = b] : b \in BadValues(f)} : f \in TransformFields}
    \cup {[ValidPatch EXCEPT !.relWidth = Num(0), !.relHeight = NaN],
          [relX |-> NaN, relY |-> NaN, relWidth |-> Num(-100), relHeight |-> Num(0),
           rotation |-> NaN]}

\* App.tsx: handleUpdateImageTransform(id, attrs), called by handleDragEnd and
\* handleTransformEnd of Canvas.tsx for the node of a drawn layer; id may also
\* be one no layer of the store has
handleUpdateImageTransform(id, attrs) ==
    /\ appMode = "images"                            \* Canvas.tsx: renderImages
    /\ id \in LayerIds(images) => IsRendered(images[FindIndex(images, id)])
    /\ images' = UpdateImageTransform(images, id, attrs)
    /\ lastCall' = [NoCall EXCEPT !.op = "updateTransform", !.id = id, !.attrs = attrs]
    /\ UNCHANGED <<selectedShapeIds, nextImageId, imageReads>>
    /\ LayerFrame(Cur)

TransformImage ==
    \E id \in 1..nextImageId, attrs \in DragPatches \cup TransformPatches :
        handleUpdateImageTransform(id, attrs)

(***************************************************************************)
(* Overlay layers: claims.                                                 *)
(***************************************************************************)
\* C9 (partial-patch safety): updateTransform(id, attrs) leaves a relX, relY or
\* rotation field unchanged when attrs gives no valid number for it, leaves a
\* relWidth or relHeight field unchanged when attrs gives NaN or a value that is
\* not strictly positive, applies the valid fields, and changes no other field,
\* no other layer, neither the layer order nor the selection; an unknown id
\* changes nothing.
C9_PartialPatch ==
    [][ lastCall'.op = "updateTransform" =>
          /\ Len(images') = Len(images)
          /\ selectedShapeIds' = selectedShapeIds
          /\ \A i \in 1..Len(images) :
                IF images[i].id # lastCall'.id
                THEN images'[i] = images[i]
                ELSE /\ \A g \in (DOMAIN images[i]) \ TransformFields :
                            images'[i][g] = images[i][g]
                     /\ \A f \in {"relX", "relY", "rotation"} :
                            images'[i][f] = IF lastCall'.attrs[f].k = "num"
                                            THEN lastCall'.attrs[f]
                                            ELSE images[i][f]
                     /\ \A f \in {"relWidth", "relHeight"} :
                            images'[i][f] = IF /\ lastCall'.attrs[f].k = "num"
                                               /\ lastCall'.attrs[f].v > 0
                                            THEN lastCall'.attrs[f]
                                            ELSE images[i][f] ]_vars

\* a patch with a valid position, rotation and height and a zero width was
\* applied to the second of two layers: all but the width are stored, the
\* width is still the one computed when the element loaded
C9_Witness ==
    /\ lastCall.op = "updateTransform"
    /\ lastCall.id = 2
    /\ lastCall.attrs = [ValidPatch EXCEPT !.relWidth = Num(0)]
    /\ Len(images) = 2
    /\ images[2].id = 2
    /\ images[2].relX = Num(250) /\ images[2].relY = Num(250)
    /\ images[2].rotation = Num(90)
    /\ images[2].relHeight = Num(300)
    /\ images[2].relWidth = Num(200)

\* the layers other than the one with the given id, in their order
OthersOrder(imgs, id) == SelectSeq(imgs, LAMBDA t : t.id # id)

\* C10 (reorder stability): reorder(draggedId, targetId) leaves the layer list
\* unchanged when the ids are equal or one of them is not in the store;
\* otherwise the result holds the same layers and the layers other than the
\* dragged one keep their relative order.
C10_ReorderStability ==
    [][ lastCall'.op = "reorder" =>
          IF \/ lastCall'.id = lastCall'.target
             \/ lastCall'.id \notin LayerIds(images)
             \/ lastCall'.target \notin LayerIds(images)
          THEN images' = images
          ELSE /\ Len(images') = Len(images)
               /\ Range(images') = Range(images)
               /\ OthersOrder(images', lastCall'.id) = OthersOrder(images, lastCall'.id)
      ]_vars

\* a reorder of three layers moved the dragged layer: the layer uploaded last
\* is now first
C10_Witness ==
    /\ lastCall.op = "reorder"
    /\ Len(images) = 3
    /\ lastCall.id = 3 /\ lastCall.target = 1
    /\ images[1].id = 3 /\ images[2].id = 1 /\ images[3].id = 2

\* C34: after reorder(draggedId, targetId) with two distinct ids of the store
\* the dragged layer is immediately before the target layer in the list,
\* whether it was before or after it; a layer dragged onto the layer directly
\* after it leaves the order unchanged.
C34_DraggedBeforeTarget ==
    [][ (/\ lastCall'.op = "reorder"
         /\ lastCall'.id # lastCall'.target
         /\ lastCall'.id \in LayerIds(images)
         /\ lastCall'.target \in LayerIds(images))
        => /\ FindIndex(images', lastCall'.id) + 1 = FindIndex(images', lastCall'.target)
           /\ FindIndex(images, lastCall'.id) + 1 = FindIndex(images, lastCall'.target)
                => images' = images ]_vars

\* the first of three layers was dragged onto the third and is now the second
C34_Witness ==
    /\ lastCall.op = "reorder"
    /\ lastCall.id = 1 /\ lastCall.target = 3
    /\ Len(images) = 3
    /\ images[1].id = 2 /\ images[2].id = 1 /\ images[3].id = 3

(***************************************************************************)
(* Mask construction: the code of segmentWithPointsImpl that runs after    *)
(* post_process_masks resolved (useTransformers.ts).  A mask plane is      *)
(* NumPixels wide and one pixel high.                                      *)
(***************************************************************************)
\* segIn: scores is iou_scores.data, numMasks and data are dims[0] and the data
\* of the mask tensor, baseAlpha the alpha channel of the base image element
\* scaled to the mask's size.
NoSegIn == [scores |-> <<>>, numMasks |-> 0, data |-> <<>>, baseAlpha |-> <<>>]

\* segOut: bestIndex after the selection loop, selected after the range check
NoSegOut ==
    [done |-> FALSE, bestIndex |-> 0, selected |-> 0, rawMaskData |-> <<>>,
     blueAlpha |-> <<>>, clipAlpha |-> <<>>]

\* alpha values of a base image pixel
AlphaValues == {0, 128, 255}

\* A mutation of BestIndexLoop: a later candidate with an equal score wins
RECURSIVE BestIndexLoopLastMax(_, _, _, _)
BestIndexLoopLastMax(scores, i, maxScore, bestIndex) ==
    IF i >= Len(scores)
    THEN bestIndex
    ELSE IF scores[i + 1] >= maxScore
         THEN BestIndexLoopLastMax(scores, i + 1, scores[i + 1], i)
         ELSE BestIndexLoopLastMax(scores, i + 1, maxScore, bestIndex)

\* for (let i = 1; i < scores.length; ++i) if (scores[i] > maxScore) ...
\* (JavaScript indices: scores[i] is the element i + 1 of the sequence)
RECURSIVE BestIndexLoop(_, _, _, _)
BestIndexLoop(scores, i, maxScore, bestIndex) ==
    IF i >= Len(scores)
    THEN bestIndex
    ELSE IF scores[i + 1] > maxScore
         THEN BestIndexLoop(scores, i + 1, scores[i + 1], i)
         ELSE BestIndexLoop(scores, i + 1, maxScore, bestIndex)

BestIndex(scores) ==
    IF Len(scores) > 1 THEN BestIndexLoop(scores, 1, scores[1], 0) ELSE 0

\* if (bestIndex < 0 || bestIndex >= numMasksInTensor) bestIndex = 0
CheckedIndex(bestIndex, numMasksInTensor) ==
    IF bestIndex < 0 \/ bestIndex >= numMasksInTensor THEN 0 ELSE bestIndex

\* masksTensorPre.data.slice(offset, offset + maskSize)
RawMaskData(data, bestIndex, maskSize) ==
    LET offset == bestIndex * maskSize
    IN  [i \in 1..maskSize |-> data[offset + i]]

\* the alpha channel of the blue overlay
BlueOverlay(rawMaskData) ==
    [i \in 1..Len(rawMaskData) |-> IF rawMaskData[i] = 1 THEN 150 ELSE 0]

\* clipCtx.drawImage on the new, transparent canvas: source-over compositing
DrawImage(srcAlpha) ==
    [i \in 1..Len(srcAlpha) |-> srcAlpha[i] + (0 * (255 - srcAlpha[i])) \div 255]

\* A mutation of ClipOverlay: alpha is zeroed outside the mask
ClipOverlayNotInverted(rawMaskData, baseAlpha) ==
    LET clipRgbaData == DrawImage(baseAlpha)
    IN  [i \in 1..Len(rawMaskData) |->
            IF rawMaskData[i] = 1 THEN clipRgbaData[i] ELSE 0]

\* the alpha channel of the clipping overlay
ClipOverlay(rawMaskData, baseAlpha) ==
    LET clipRgbaData == DrawImage(baseAlpha)
    IN  [i \in 1..Len(rawMaskData) |->
            IF rawMaskData[i] = 1 THEN 0 ELSE clipRgbaData[i]]

\* segmentWithPointsImpl from the selection of the best mask to its return
PostProcess ==
    /\ segIn # NoSegIn /\ ~segOut.done
    /\ LET bestIndex == BestIndex(segIn.scores)
           selected == CheckedIndex(bestIndex, segIn.numMasks)
           rawMaskData == RawMaskData(segIn.data, selected, NumPixels)
       IN  segOut' = [done |-> TRUE, bestIndex |-> bestIndex, selected |-> selected,
                      rawMaskData |-> rawMaskData,
                      blueAlpha |-> BlueOverlay(rawMaskData),
                      clipAlpha |-> ClipOverlay(rawMaskData, segIn.baseAlpha)]
    /\ UNCHANGED <<segIn, sessionVars, layerVars, stageSize, extVars>>
    /\ AfterRender

(***************************************************************************)
(* Mask construction: claims.                                              *)
(***************************************************************************)
\* C7 (tie-break law): for every non-empty list of confidence scores the
\* selection loop ends on an index holding the maximum score, and on the
\* smallest index that holds it.
C7_TieBreak ==
    segOut.done =>
        LET best == segOut.bestIndex + 1
        IN  /\ best \in 1..Len(segIn.scores)
            /\ \A j \in 1..Len(segIn.scores) : segIn.scores[j] <= segIn.scores[best]
            /\ \A j \in 1..(best - 1) : segIn.scores[j] < segIn.scores[best]

\* three candidates, the second and the third share the maximum: the second won
C7_Witness ==
    /\ segOut.done
    /\ Len(segIn.scores) = 3
    /\ segIn.scores[1] < segIn.scores[2]
    /\ segIn.scores[3] = segIn.scores[2]
    /\ segOut.bestIndex = 1

\* the pixel i of the mask plane that was extracted, read from the tensor
WinningMask(i) == segIn.data[segOut.selected * NumPixels + i]

\* C8 (inverse-mask invariant, as claimed): the alpha of a pixel of the clip
\* buffer is 0 if and only if the pixel of the winning mask is 1, whatever the
\* alpha of the base image.
C8_InverseMask ==
    segOut.done =>
        \A i \in 1..NumPixels : (segOut.clipAlpha[i] = 0) <=> (WinningMask(i) = 1)

\* C8 (as the code has it): the alpha of a pixel of the clip buffer is 0 where
\* the pixel of the winning mask is 1, and the alpha of the base image's pixel
\* elsewhere.
C8_ClipAlpha ==
    segOut.done =>
        \A i \in 1..NumPixels :
            segOut.clipAlpha[i] = IF WinningMask(i) = 1 THEN 0 ELSE segIn.baseAlpha[i]

\* a clip buffer was built from a mask with a pixel inside and a pixel outside,
\* over a base image that is not opaque outside the mask, the second plane won
C8_Witness ==
    /\ segOut.done
    /\ segOut.selected = 1
    /\ WinningMask(1) = 1 /\ segOut.clipAlpha[1] = 0 /\ segIn.baseAlpha[1] = 255
    /\ WinningMask(2) = 0 /\ segOut.clipAlpha[2] = 128

(***************************************************************************)
(* Layer tasks: background removal and tinting (App.tsx).  The handlers    *)
(* are the onRemoveBackground and onAddColor props of App; they are called *)
(* here for any layer at any time, as a holder of the props can.  (The     *)
(* BG Rem button of Sidebar.tsx is disabled while any layer's removal is   *)
(* pending; the handlers do not rely on it.)                               *)
(***************************************************************************)
\* the data URLs a removal and a tint produce
TaskSrc(kind) == IF kind = "bg" THEN "nobg" ELSE "tint"

\* the element decoded from such a data URL
TaskElement(kind) == IF kind = "bg" THEN 3 ELSE 4

\* the transform fields of a layer, as a record
TransformOf(t) == [f \in TransformFields |-> t[f]]

\* A mutation of CanRemoveBackground: the pending removal is not looked at
CanRemoveBackgroundNoFlag(imgs, id, ready) ==
    /\ id \in LayerIds(imgs)
    /\ ready
    /\ imgs[FindIndex(imgs, id)].processedSrc = imgs[FindIndex(imgs, id)].originalSrc

\* App.tsx: handleRemoveBackground goes on (the negation of its early return)
CanRemoveBackground(imgs, id, ready) ==
    /\ id \in LayerIds(imgs)
    /\ ~imgs[FindIndex(imgs, id)].isRemovingBg
    /\ ready
    /\ imgs[FindIndex(imgs, id)].processedSrc = imgs[FindIndex(imgs, id)].originalSrc

\* App.tsx: handleAddColor goes on (the negation of its early return)
CanAddColor(imgs, id) ==
    /\ id \in LayerIds(imgs)
    /\ ~imgs[FindIndex(imgs, id)].isRemovingBg
    /\ ~imgs[FindIndex(imgs, id)].isChangingColor
    /\ imgs[FindIndex(imgs, id)].konvaImage # 0

\* { ...t, isRemovingBg: v } / { ...t, isChangingColor: v }
SetTaskFlag(t, kind, v) ==
    IF kind = "bg" THEN [t EXCEPT !.isRemovingBg = v] ELSE [t EXCEPT !.isChangingColor = v]

\* A mutation of TaskSucceeded: the result is spread over the layer object the
\* handler found when it was called
TaskSucceededStale(t, task) ==
    SetTaskFlag([task.before EXCEPT !.processedSrc = TaskSrc(task.kind),
                                    !.konvaImage = TaskElement(task.kind)],
                task.kind, FALSE)

\* App.tsx: img.onload of handleRemoveBackground / handleAddColor, for the layer
\* t of the task
TaskSucceeded(t, task) ==
    SetTaskFlag([t EXCEPT !.processedSrc = TaskSrc(task.kind),
                          !.konvaImage = TaskElement(task.kind)],
                task.kind, FALSE)

\* A mutation of TaskFailed: the layer object the handler found when it was
\* called is put back
TaskFailedStale(t, task) == SetTaskFlag(task.before, task.kind, FALSE)

\* A mutation of TaskFailed: the layer is left as it is, flag and all
TaskFailedKeepsFlag(t, task) == t

\* App.tsx: img.onerror, the else branch and the catch of both handlers
TaskFailed(t, task) == SetTaskFlag(t, task.kind, FALSE)

\* the layer-store part of a task handler's first half
StartTask(id, kind) ==
    /\ images' = [i \in 1..Len(images) |->
                    IF images[i].id = id THEN SetTaskFlag(images[i], kind, TRUE)
                    ELSE images[i]]
    /\ layerTasks' = Append(layerTasks, [id |-> id, kind |-> kind,
                                         before |-> images[FindIndex(images, id)]])
    /\ tasksStarted' = tasksStarted + 1

\* App.tsx: handleRemoveBackground(id), up to the await; removeBackgroundImpl
\* sets the status before its first await
handleRemoveBackground(id) ==
    /\ tasksStarted < MaxTaskStarts
    /\ lastCall' = [NoCall EXCEPT !.op = "removeBg", !.id = id]
    /\ UNCHANGED <<selectedShapeIds, nextImageId, imageReads>>
    /\ UNCHANGED <<containerSize, serviceVars>>
    /\ IF CanRemoveBackground(images, id, isBgRemovalReady)
       THEN /\ StartTask(id, "bg")
            /\ StoreFrame([Cur EXCEPT !.status =
                    IF images[FindIndex(images, id)].originalSrc = ""
                    THEN "Invalid input for background removal (requires data URL)."
                    ELSE "Removing background..."])
       ELSE /\ UNCHANGED <<images, layerTasks, tasksStarted>>
            /\ StoreFrame(Cur)
    /\ AfterRender

RemoveBackground == \E id \in LayerIds(images) : handleRemoveBackground(id)

\* App.tsx: handleAddColor(id, color), up to the await
handleAddColor(id) ==
    /\ tasksStarted < MaxTaskStarts
    /\ lastCall' = [NoCall EXCEPT !.op = "addColor", !.id = id]
    /\ UNCHANGED <<selectedShapeIds, nextImageId, imageReads>>
    /\ UNCHANGED <<containerSize, serviceVars>>
    /\ IF CanAddColor(images, id)
       THEN StartTask(id, "tint")
       ELSE UNCHANGED <<images, layerTasks, tasksStarted>>
    /\ StoreFrame(Cur)
    /\ AfterRender

AddColor == \E id \in LayerIds(images) : handleAddColor(id)

\* The ways a task can end.  A removal of a layer that has no data URL yet
\* returns null; a tint of the empty element gives an image that fails to decode.
Outcomes(task) ==
    IF task.kind = "bg"
    THEN IF task.before.originalSrc = "" THEN {"null"} ELSE {"ok", "decodeFail", "throw"}
    ELSE IF task.before.konvaImage = 2 THEN {"decodeFail"} ELSE {"ok", "decodeFail", "throw"}

\* what useTransformers.ts leaves in status when removeBackgroundImpl ends
TaskStatus(task, outcome, old) ==
    IF task.kind # "bg" \/ outcome = "null"
    THEN old
    ELSE IF outcome = "throw" THEN "Background removal error" ELSE "Background removed."

\* App.tsx: the rest of handleRemoveBackground / handleAddColor for the task i
TaskSettled(i, outcome) ==
    /\ i \in 1..Len(layerTasks)
    /\ outcome \in Outcomes(layerTasks[i])
    /\ LET task == layerTasks[i]
       IN  /\ images' = [j \in 1..Len(images) |->
                           IF images[j].id = task.id
                           THEN IF outcome = "ok" THEN TaskSucceeded(images[j], task)
                                ELSE TaskFailed(images[j], task)
                           ELSE images[j]]
           /\ lastCall' = [op |-> IF outcome = "ok" THEN "taskOk" ELSE "taskFailed",
                           id |-> task.id, target |-> i,
                           attrs |-> TransformOf(task.before)]
           /\ StoreFrame([Cur EXCEPT !.status = TaskStatus(task, outcome, @)])
    /\ layerTasks' = RemoveAt(layerTasks, i)
    /\ UNCHANGED <<tasksStarted, selectedShapeIds, nextImageId, imageReads>>
    /\ UNCHANGED <<containerSize, serviceVars>>
    /\ AfterRender

TaskDone ==
    \E i \in 1..Len(layerTasks), outcome \in {"ok", "decodeFail", "null", "throw"} :
        TaskSettled(i, outcome)

\* the layer id is in the store with the flag of the kind of task set
Flagged(id, kind) ==
    \E i \in 1..Len(images) :
        /\ images[i].id = id
        /\ IF kind = "bg" THEN images[i].isRemovingBg ELSE images[i].isChangingColor

\* C37: if every call of the service settles and every replacement image fires
\* load or error, a layer whose isRemovingBg or isChangingColor is set is later
\* a layer with the flag cleared, or gone from the store, whichever way its
\* task ended (success, empty result, exception, decode failure).
C37_TaskFlagsClear ==
    \A id \in 1..MaxTaskLayers :
        /\ Flagged(id, "bg") ~> ~Flagged(id, "bg")
        /\ Flagged(id, "tint") ~> ~Flagged(id, "tint")

\* a task ended in a failure and its layer, still in the store, has no flag set
C37_Witness ==
    /\ lastCall.op = "taskFailed"
    /\ lastCall.id \in LayerIds(images)
    /\ ~Flagged(lastCall.id, "bg") /\ ~Flagged(lastCall.id, "tint")

\* C38: no layer has two pixel-replacing tasks in flight: a tint asked for
\* during a background removal is ignored, and so is a background removal asked
\* for during a tint.
C38_OneTaskPerLayer ==
    \A i, j \in 1..Len(layerTasks) : layerTasks[i].id = layerTasks[j].id => i = j

\* history of a load: naturalWidth and naturalHeight of the element, kept in
\* the relWidth and relHeight of lastCall.attrs
NaturalSizeOf(natural) ==
    [NoAttrs EXCEPT !.relWidth = Num(natural[1]), !.relHeight = Num(natural[2])]

\* App.tsx: handleLoadImageImage, called by the loading effect of Canvas.tsx
\* when the element of a layer that had none loaded or failed to load
handleLoadImageImage(id, natural) ==
    /\ id \in LayerIds(images)
    /\ images[FindIndex(images, id)].processedSrc # ""
    /\ images[FindIndex(images, id)].konvaImage = 0
    /\ images' = [i \in 1..Len(images) |->
                    IF images[i].id = id /\ images[i].konvaImage = 0
                    THEN LoadImageImage(images[i], natural, stageSize)
                    ELSE images[i]]
    /\ lastCall' = [NoCall EXCEPT !.op = "load", !.id = id,
                                  !.attrs = NaturalSizeOf(natural)]
    /\ UNCHANGED <<selectedShapeIds, nextImageId, imageReads>>
    /\ LayerFrame(Cur)

ImageElementLoaded ==
    \E id \in LayerIds(images), natural \in NaturalSizes : handleLoadImageImage(id, natural)

\* the ids of the layers that were in the store and are not (ids are given in
\* order, and every specification begins with the layers 1..nextImageId - 1)
RemovedIds == (1..(nextImageId - 1)) \ LayerIds(images)

\* App.tsx: handleLoadImageImage for a layer that was removed while Canvas.tsx
\* was loading its element
handleLoadRemovedImage(id, natural) ==
    /\ id \in RemovedIds
    /\ images' = [i \in 1..Len(images) |->
                    IF images[i].id = id /\ images[i].konvaImage = 0
                    THEN LoadImageImage(images[i], natural, stageSize)
                    ELSE images[i]]
    /\ lastCall' = [NoCall EXCEPT !.op = "lateLoad", !.id = id]
    /\ UNCHANGED <<selectedShapeIds, nextImageId, imageReads>>
    /\ LayerFrame(Cur)

RemovedElementLoaded == \E id \in RemovedIds : handleLoadRemovedImage(id, <<400, 200>>)

\* App.tsx: onRemoveImage called by a holder of the prop, whatever the sidebar
\* shows
RemoveImageAnyTime == \E id \in LayerIds(images) : onRemoveImage(id)

\* C39: the id of a removed layer is in the store and in the selection never
\* again, and the completion of a file read, of an element's load, of a
\* background removal or of a tint of a removed layer changes no layer and adds
\* none.
C39_RemovedStaysOut ==
    [][/\ RemovedIds \cap LayerIds(images') = {}
       /\ RemovedIds \cap Range(selectedShapeIds') = {}
       /\ (/\ lastCall'.op \in {"read", "lateLoad", "taskOk", "taskFailed"}
           /\ lastCall'.id \in RemovedIds)
            => images' = images /\ selectedShapeIds' = selectedShapeIds]_vars

\* the tint of a layer ended well after the layer was removed, and another
\* layer is in the store
C39_Witness ==
    /\ lastCall.op = "taskOk"
    /\ lastCall.id \in RemovedIds
    /\ images # <<>>

\* useTransformers.ts: loadBgRemoval succeeded
BgRemovalLoaded ==
    /\ ~isBgRemovalReady
    /\ isBgRemovalReady' = TRUE
    /\ lastCall' = NoCall
    /\ StoreFrame([Cur EXCEPT !.status = IF isSamReady THEN "All AI models ready."
                                         ELSE "BG Removal ready. Waiting for SAM..."])
    /\ UNCHANGED <<layerStore, containerSize, layerTasks, tasksStarted, samLoad, bgLoad>>
    /\ AfterRender

\* Canvas.tsx: handleDragEnd for a layer dropped at the quarter of the stage
MoveImage ==
    \E id \in LayerIds(images) :
        handleUpdateImageTransform(id, [NoAttrs EXCEPT !.relX = Num(250), !.relY = Num(250)])

\* the pending background removals of the layer id
PendingRemovals(tasks, id) ==
    {i \in 1..Len(tasks) : tasks[i].id = id /\ tasks[i].kind = "bg"}

C12_ReplacementKeepsGeometry ==
    [][lastCall'.op = "taskOk" =>
        LET task == layerTasks[lastCall'.target]
        IN  /\ Len(images') = Len(images)
            /\ \A i \in 1..Len(images) :
                /\ images'[i].id = images[i].id
                /\ TransformOf(images'[i]) = TransformOf(images[i])
                /\ images[i].id # task.id => images'[i] = images[i]
                /\ images[i].id = task.id =>
                    /\ images'[i].processedSrc = TaskSrc(task.kind)
                    /\ images'[i].konvaImage = TaskElement(task.kind)
                    /\ images'[i].originalSrc = images[i].originalSrc
                    /\ images'[i].isLoading = images[i].isLoading
                    /\ IF task.kind = "bg"
                       THEN /\ ~images'[i].isRemovingBg
                            /\ images'[i].isChangingColor = images[i].isChangingColor
                       ELSE /\ ~images'[i].isChangingColor
                            /\ images'[i].isRemovingBg = images[i].isRemovingBg]_vars

\* a task completed for a layer that was moved while the task was pending
C12_Witness ==
    /\ lastCall.op = "taskOk"
    /\ lastCall.attrs.relX # Num(250)
    /\ \E i \in 1..Len(images) :
        /\ images[i].id = lastCall.id
        /\ images[i].relX = Num(250)
        /\ images[i].processedSrc \in {"nobg", "tint"}

\* the decoded element of a layer is the one of its processedSrc
PixelsMatch(t) ==
    /\ t.processedSrc = "nobg" <=> t.konvaImage = 3
    /\ t.processedSrc = "tint" <=> t.konvaImage = 4

\* C13 as claimed: after a failed removal or tint the layer's pixels and
\* transform are exactly what they were before the attempt.
C13_AsBeforeAttempt ==
    [][lastCall'.op = "taskFailed" =>
        LET task == layerTasks[lastCall'.target]
        IN  \A i \in 1..Len(images') :
                images'[i].id = task.id =>
                    /\ images'[i].processedSrc = task.before.processedSrc
                    /\ images'[i].konvaImage = task.before.konvaImage
                    /\ TransformOf(images'[i]) = TransformOf(task.before)]_vars

\* C13, amended: a failed removal or tint clears the flag of that task and
\* changes nothing else: the layer's pixels and transform are what they were
\* just before the failure was handled, changes made while the task was pending
\* included; and in every state the decoded element of a layer is the one of
\* its processedSrc.
C13_FailureChangesNothing ==
    [][/\ \A i \in 1..Len(images') : PixelsMatch(images'[i])
       /\ lastCall'.op = "taskFailed" =>
            LET task == layerTasks[lastCall'.target]
            IN  /\ Len(images') = Len(images)
                /\ \A i \in 1..Len(images) :
                    /\ images[i].id # task.id => images'[i] = images[i]
                    /\ images[i].id = task.id =>
                        /\ images'[i].processedSrc = images[i].processedSrc
                        /\ images'[i].konvaImage = images[i].konvaImage
                        /\ images'[i].originalSrc = images[i].originalSrc
                        /\ TransformOf(images'[i]) = TransformOf(images[i])
                        /\ IF task.kind = "bg" THEN ~images'[i].isRemovingBg
                           ELSE ~images'[i].isChangingColor]_vars

\* a task failed for a layer that was moved while the task was pending
C13_Witness ==
    /\ lastCall.op = "taskFailed"
    /\ lastCall.attrs.relX # Num(250)
    /\ \E i \in 1..Len(images) :
        /\ images[i].id = lastCall.id
        /\ images[i].relX = Num(250)
        /\ ~images[i].isRemovingBg /\ ~images[i].isChangingColor

(***************************************************************************)
(* Selection (App.tsx).  A click is on the stage, on a drawn layer or on   *)
(* the transformer; target of lastCall: 0 the stage, 1 a layer, 2 a layer  *)
(* with shift, ctrl or meta pressed, 3 the transformer.                    *)
(***************************************************************************)
\* A mutation of StageClickSelection: a click without modifier always selects
\* only the clicked layer
StageClickSelectionReplace(mode, prev, target, clickedId) ==
    IF mode # "images" \/ target = 3 THEN prev
    ELSE IF target = 0 THEN <<>>
    ELSE IF target = 1 THEN <<clickedId>>
    ELSE IF clickedId \in Range(prev) THEN FilterOut(prev, clickedId)
    ELSE Append(prev, clickedId)

\* App.tsx: what handleStageClick makes of the selection prev (no selection
\* rectangle being dragged)
StageClickSelection(mode, prev, target, clickedId) ==
    IF mode # "images" \/ target = 3 THEN prev
    ELSE IF target = 0 THEN <<>>
    ELSE IF target = 1
         THEN IF clickedId \in Range(prev) THEN prev ELSE <<clickedId>>
    ELSE IF clickedId \in Range(prev) THEN FilterOut(prev, clickedId)
    ELSE Append(prev, clickedId)

\* Canvas.tsx: the layers renderImages draws, which are the ones to click on
DrawnLayerIds ==
    IF appMode = "images"
    THEN {images[i].id : i \in {j \in 1..Len(images) : IsRendered(images[j])}}
    ELSE {}

\* App.tsx: handleStageClick
handleStageClick(target, clickedId) ==
    /\ target \in {1, 2} => clickedId \in DrawnLayerIds
    /\ target = 3 => Range(selectedShapeIds) \cap DrawnLayerIds # {}   \* Canvas.tsx: transformer effect
    /\ selectedShapeIds' =
         IF selectionBox.visible THEN <<>>           \* a drag of the rectangle is on
         ELSE StageClickSelection(appMode, selectedShapeIds, target, clickedId)
    /\ lastCall' = [NoCall EXCEPT !.op = "click", !.id = clickedId, !.target = target]
    /\ UNCHANGED <<images, nextImageId, imageReads>>
    /\ LayerFrame(Cur)

StageClick ==
    \/ handleStageClick(0, 0)
    \/ \E id \in DrawnLayerIds, target \in {1, 2} : handleStageClick(target, id)
    \/ handleStageClick(3, 0)

\* App.tsx: handleSelectShapeFromSidebar, called by handleItemClick of Sidebar.tsx
handleSelectShapeFromSidebar(id) ==
    /\ appMode = "images" /\ ~SidebarProcessing      \* Sidebar.tsx: handleItemClick
    /\ id \in LayerIds(images)
    /\ selectedShapeIds' = <<id>>
    /\ lastCall' = [NoCall EXCEPT !.op = "select", !.id = id]
    /\ UNCHANGED <<images, nextImageId, imageReads>>
    /\ LayerFrame(Cur)

SelectShapeFromSidebar == \E id \in LayerIds(images) : handleSelectShapeFromSidebar(id)

\* C14: in points mode the selection is empty.
C14_NoSelectionInPointsMode == appMode = "points" => selectedShapeIds = <<>>

\* C15 as claimed: a click on a layer without modifier leaves exactly that layer
\* selected, whatever the selection was before.
C15_PlainClickReplaces ==
    [][(lastCall'.op = "click" /\ lastCall'.target = 1) =>
            selectedShapeIds' = <<lastCall'.id>>]_vars

\* C15, amended: a click without modifier on a layer that is not selected
\* leaves exactly that layer selected; on a layer that is selected it leaves the
\* selection as it was.  A click with a modifier toggles the membership of that
\* layer only: the other layers keep theirs, and their order.
C15_ClickSelection ==
    [][lastCall'.op = "click" =>
        LET id == lastCall'.id
        IN  /\ (lastCall'.target = 1 /\ id \notin Range(selectedShapeIds)) =>
                    selectedShapeIds' = <<id>>
            /\ (lastCall'.target = 1 /\ id \in Range(selectedShapeIds)) =>
                    selectedShapeIds' = selectedShapeIds
            /\ lastCall'.target = 2 =>
                    /\ id \in Range(selectedShapeIds') <=> id \notin Range(selectedShapeIds)
                    /\ FilterOut(selectedShapeIds', id) = FilterOut(selectedShapeIds, id)]_vars

\* a click without modifier on one of two selected layers
C15_Witness ==
    /\ lastCall.op = "click" /\ lastCall.target = 1
    /\ Len(selectedShapeIds) = 2
    /\ lastCall.id \in Range(selectedShapeIds)

(***************************************************************************)
(* The canvas (Canvas.tsx): what the Stage draws, bottom to top, as a      *)
(* sequence of items.  Lengths are in thousandths of a pixel, which is     *)
(* what a relative field in thousandths times a stage size in pixels       *)
(* gives.  image is the element or canvas drawn; nodes are the layers the  *)
(* transformer is attached to.                                             *)
(***************************************************************************)
MIN_RENDER_PIXEL_SIZE == 5

Item(kind, id, x, y, w, h, rotation, image, nodes) ==
    [kind |-> kind, id |-> id, x |-> x, y |-> y, width |-> w, height |-> h,
     rotation |-> rotation, image |-> image, nodes |-> nodes]

\* the relative position, in thousandths, of the click that made the point id
PointRel(id) == <<250 * id, 250>>

\* App.tsx: the state App renders from
AppState ==
    [appMode |-> appMode, baseImage |-> baseImage, images |-> images,
     points |-> segmentationPoints, maskData |-> maskData, showMask |-> showMask,
     clipImagesGlobally |-> clipImagesGlobally, selectedShapeIds |-> selectedShapeIds,
     stageSize |-> stageSize, status |-> status,
     isGeneratingEmbeddings |-> isGeneratingEmbeddings, isSamReady |-> isSamReady,
     isBgRemovalReady |-> isBgRemovalReady]

\* the same of the state a step leads to
NextAppState ==
    [appMode |-> appMode', baseImage |-> baseImage', images |-> images',
     points |-> segmentationPoints', maskData |-> maskData', showMask |-> showMask',
     clipImagesGlobally |-> clipImagesGlobally', selectedShapeIds |-> selectedShapeIds',
     stageSize |-> stageSize', status |-> status',
     isGeneratingEmbeddings |-> isGeneratingEmbeddings', isSamReady |-> isSamReady',
     isBgRemovalReady |-> isBgRemovalReady']

\* App.tsx: the props CanvasComponent is given
CanvasProps(s) ==
    [appMode |-> s.appMode, baseImage |-> s.baseImage, images |-> s.images,
     points |-> s.points, maskData |-> s.maskData, showMask |-> s.showMask,
     clipImagesGlobally |-> s.clipImagesGlobally,
     selectedShapeIds |-> s.selectedShapeIds, stageSize |-> s.stageSize]

FullStage(kind, image, p) ==
    Item(kind, 0, 0, 0, p.stageSize[1] * 1000, p.stageSize[2] * 1000, 0, image, <<>>)

renderBaseImage(p) ==
    IF getBaseImageAttrs(p) THEN <<FullStage("base", p.baseImage.element, p)>> ELSE <<>>

\* A mutation of ImageNode: the stage height is used for x
ImageNodeHeightForX(t, stage) ==
    Item("layer", t.id, t.relX.v * stage[2], t.relY.v * stage[2],
         Max(MIN_RENDER_PIXEL_SIZE * 1000, t.relWidth.v * stage[1]),
         Max(MIN_RENDER_PIXEL_SIZE * 1000, t.relHeight.v * stage[2]),
         t.rotation.v, t.konvaImage, <<>>)

\* Canvas.tsx: the KonvaImage renderImages returns for a layer that is ready
ImageNode(t, stage) ==
    Item("layer", t.id, t.relX.v * stage[1], t.relY.v * stage[2],
         Max(MIN_RENDER_PIXEL_SIZE * 1000, t.relWidth.v * stage[1]),
         Max(MIN_RENDER_PIXEL_SIZE * 1000, t.relHeight.v * stage[2]),
         t.rotation.v, t.konvaImage, <<>>)

\* A mutation of renderImages: the selected layers are drawn above the others
renderImagesSelectedOnTop(p) ==
    IF p.appMode # "images" \/ ~ValidStage(p.stageSize) THEN <<>>
    ELSE LET ready == SelectSeq(p.images, IsRendered)
             below == SelectSeq(ready, LAMBDA t : t.id \notin Range(p.selectedShapeIds))
             above == SelectSeq(ready, LAMBDA t : t.id \in Range(p.selectedShapeIds))
         IN  [i \in 1..Len(ready) |-> ImageNode((below \o above)[i], p.stageSize)]

renderImages(p) ==
    IF p.appMode # "images" \/ ~ValidStage(p.stageSize) THEN <<>>
    ELSE LET ready == SelectSeq(p.images, IsRendered)
         IN  [i \in 1..Len(ready) |-> ImageNode(ready[i], p.stageSize)]

renderClippingOverlay(p) ==
    IF p.clipImagesGlobally /\ getBaseImageAttrs(p) /\ p.maskData # NoMask
    THEN <<FullStage("clip", p.maskData.element, p)>> ELSE <<>>

renderMaskOverlay(p) ==
    IF getBaseImageAttrs(p) /\ p.maskData # NoMask /\ p.showMask
    THEN <<FullStage("mask", p.maskData.element, p)>> ELSE <<>>

\* Canvas.tsx: getPointCanvasCoords
getPointCanvasCoords(id, stage) == <<PointRel(id)[1] * stage[1], PointRel(id)[2] * stage[2]>>

renderPoints(p) ==
    IF p.appMode # "points" \/ p.baseImage = NoImage \/ ~getBaseImageAttrs(p) THEN <<>>
    ELSE [i \in 1..Len(p.points) |->
            Item("point", p.points[i], getPointCanvasCoords(p.points[i], p.stageSize)[1],
                 getPointCanvasCoords(p.points[i], p.stageSize)[2], 0, 0, 0, 0, <<>>)]

renderSelectionRectangle(p) == <<Item("selectionRect", 0, 0, 0, 0, 0, 0, 0, <<>>)>>

\* Canvas.tsx: renderTransformer, with the nodes its effect attaches
renderTransformer(p) ==
    IF p.appMode # "images" THEN <<>>
    ELSE LET drawn == {renderImages(p)[i].id : i \in 1..Len(renderImages(p))}
         IN  <<Item("transformer", 0, 0, 0, 0, 0, 0, 0,
                    SelectSeq(p.selectedShapeIds, LAMBDA id : id \in drawn))>>

\* Canvas.tsx: the Stage and its three layers
DrawList(p) ==
    renderBaseImage(p) \o renderImages(p)
        \o renderClippingOverlay(p)
        \o renderMaskOverlay(p) \o renderPoints(p)
        \o renderSelectionRectangle(p) \o renderTransformer(p)

\* A mutation of Screen: nothing is drawn while embeddings are computed
ScreenHiddenWhileProcessing(s) ==
    IF ValidStage(s.stageSize) /\ ~s.isGeneratingEmbeddings
    THEN DrawList(CanvasProps(s)) ELSE <<>>

\* App.tsx: the canvas App renders from its state
Screen(s) == IF ValidStage(s.stageSize) THEN DrawList(CanvasProps(s)) ELSE <<>>

\* the layer an item belongs to: the Konva layers baseLayer (base image, then
\* the overlay layers), clippingOverlayLayer, feedbackLayer (mask, then the rest)
Rank(kind) ==
    CASE kind = "base" -> 1
      [] kind = "layer" -> 2
      [] kind = "clip" -> 3
      [] kind = "mask" -> 4
      [] OTHER -> 5

\* the overlay layer a is drawn somewhere below the overlay layer b
Below(L, a, b) ==
    \E i, j \in 1..Len(L) :
        i < j /\ L[i].kind = "layer" /\ L[i].id = a /\ L[j].kind = "layer" /\ L[j].id = b

DrawnIn(L, a) == \E i \in 1..Len(L) : L[i].kind = "layer" /\ L[i].id = a

ZOrdered(L, imgs) ==
    \A i, j \in 1..Len(L) :
        i < j => /\ Rank(L[i].kind) <= Rank(L[j].kind)
                 /\ (L[i].kind = "layer" /\ L[j].kind = "layer") =>
                        FindIndex(imgs, L[i].id) < FindIndex(imgs, L[j].id)

\* any two of the layers ids drawn in both L and M are in the same order in both
SameOrder(L, M, ids) ==
    \A a, b \in ids :
        (DrawnIn(L, a) /\ DrawnIn(L, b) /\ DrawnIn(M, a) /\ DrawnIn(M, b)) =>
            (Below(L, a, b) <=> Below(M, a, b))

\* the draw lists of the states s and n of a step of the operation op
ZStep(s, n, op) ==
    /\ ZOrdered(Screen(s), s.images)
    /\ ZOrdered(Screen(n), n.images)
    /\ op # "reorder" => SameOrder(Screen(s), Screen(n), LayerIds(s.images))

\* C16: in every draw list the base image precedes every layer, the layers are
\* in store order, the clip overlay follows the layers, the highlight overlay
\* follows the clip overlay, and point markers, selection rectangle and
\* transformer come last; a step that is not a reorder leaves the relative
\* position of any two layers it leaves drawn as it was.
C16_FixedZOrder == [][ZStep(AppState, NextAppState, lastCall'.op)]_vars

\* base image, two layers, clip overlay, highlight overlay, selection rectangle
\* and transformer are drawn; the layer drawn first is selected and was moved
C16_Witness ==
    /\ lastCall.op = "updateTransform"
    /\ Len(Screen(AppState)) = 7
    /\ Screen(AppState)[2].kind = "layer" /\ Screen(AppState)[3].kind = "layer"
    /\ selectedShapeIds = <<Screen(AppState)[2].id>>
    /\ lastCall.id = Screen(AppState)[2].id

\* the seven inputs the draw list is claimed to be a function of
SevenInputs ==
    <<stageSize, baseImage, maskData, showMask, images, selectedShapeIds,
      clipImagesGlobally>>

SameScreen(s, n) == Screen(s) = Screen(n)

\* C17 as claimed: two states that agree on the seven inputs have the same
\* draw list, whatever the app mode is.
C17_SevenInputsOnly ==
    [][SevenInputs' = SevenInputs => SameScreen(AppState, NextAppState)]_vars

\* the draw list of s whatever the status, readiness and processing flags are
SameForOtherState(s) ==
    \A b \in BOOLEAN :
        SameScreen([s EXCEPT !.isGeneratingEmbeddings = b, !.isSamReady = b,
                             !.isBgRemovalReady = b,
                             !.status = IF b THEN "Segmentation done."
                                        ELSE "Removing background..."], s)

\* C17, amended: the draw list is a function of the seven inputs, the app mode
\* and the point list.  Two states that agree on these have the same draw list,
\* and no other state of App (status, readiness and processing flags) changes it.
C17_NineInputsOnly ==
    [][/\ (SevenInputs' = SevenInputs /\ appMode' = appMode
            /\ segmentationPoints' = segmentationPoints) =>
                SameScreen(AppState, NextAppState)
       /\ SameForOtherState(AppState)]_vars

\* the status and a readiness flag just changed under a draw list of seven items
C17_Witness ==
    /\ isBgRemovalReady
    /\ status = "All AI models ready."
    /\ Len(Screen(AppState)) = 7

(***************************************************************************)
(* The selection rectangle (App.tsx): the pointer handlers of the Stage.   *)
(* The events come in any order: a pointer that leaves the stage ends its  *)
(* drag without a pointer-up on the stage.                                 *)
(***************************************************************************)
\* pointer positions of the drags, in pixels
DragPositions == {<<0, 0>>, <<3, 3>>, <<300, 300>>, <<600, 600>>}

\* the positions at which a drag begins
DownPositions == {<<0, 0>>, <<300, 300>>}

\* what a pointer event on the stage that sets no state leaves alone
PointerFrame ==
    /\ UNCHANGED <<sessionVars, layerStore, maskVars, stageSize, extVars>>
    /\ UNCHANGED <<saving, saveTimeouts, triggerSaveSelection, konva, lastExport>>

\* App.tsx: handleStageMouseDown (onPointerDown of the Stage); onStage: the
\* target is the stage itself, not a layer's node
handleStageMouseDown(onStage, pos) ==
    /\ ~onStage => DrawnLayerIds # {}
    /\ selectionBox' =
         IF appMode = "images" /\ onStage
         THEN [x1 |-> pos[1], y1 |-> pos[2], x2 |-> pos[1], y2 |-> pos[2],
               visible |-> TRUE]
         ELSE [selectionBox EXCEPT !.visible = FALSE]
    /\ lastCall' = [NoCall EXCEPT !.op = "pointerDown"]
    /\ PointerFrame

StagePointerDown ==
    \E onStage \in BOOLEAN, pos \in DownPositions : handleStageMouseDown(onStage, pos)

\* App.tsx: handleStageMouseMove (onPointerMove of the Stage)
handleStageMouseMove(pos) ==
    /\ selectionBox' =
         IF appMode = "images" /\ selectionBox.visible
         THEN [selectionBox EXCEPT !.x2 = pos[1], !.y2 = pos[2]]
         ELSE selectionBox
    /\ lastCall' = [NoCall EXCEPT !.op = "pointerMove"]
    /\ PointerFrame

StagePointerMove == \E pos \in DragPositions : handleStageMouseMove(pos)

Abs(x) == IF x < 0 THEN 0 - x ELSE x

\* App.tsx: selBox of handleStageMouseUp
SelBox(box) ==
    [x |-> Min(box.x1, box.x2), y |-> Min(box.y1, box.y2),
     width |-> Abs(box.x2 - box.x1), height |-> Abs(box.y2 - box.y1)]

\* shape.getClientRect({ skipTransform: false }) of a layer's node, in pixels
\* times 1000: the node turns about its x, y; rotations are 0 and 90 degrees
ClientRect(node) ==
    IF node.rotation = 90
    THEN [x |-> node.x - node.height, y |-> node.y,
          width |-> node.height, height |-> node.width]
    ELSE [x |-> node.x, y |-> node.y, width |-> node.width, height |-> node.height]

\* Konva.Util.haveIntersection
haveIntersection(r1, r2) ==
    ~ \/ r2.x > r1.x + r1.width
      \/ r2.x + r2.width < r1.x
      \/ r2.y > r1.y + r1.height
      \/ r2.y + r2.height < r1.y

\* App.tsx: newSelectedIds of handleStageMouseUp: the ".image" nodes of the
\* stage that meet selBox, in the order they are drawn
BoxSelectedIds(s, selBox) ==
    LET nodes == renderImages(CanvasProps(s))
        box == [x |-> 1000 * selBox.x, y |-> 1000 * selBox.y,
                width |-> 1000 * selBox.width, height |-> 1000 * selBox.height]
        hit == SelectSeq(nodes, LAMBDA n : haveIntersection(box, ClientRect(n)))
    IN  [i \in 1..Len(hit) |-> hit[i].id]

\* A mutation of handleStageMouseUp's result: the layers hit are added to the
\* selection
StageMouseUpSelectionAdd(mode, box, prev, hit) ==
    IF mode # "images" \/ ~box.visible THEN prev
    ELSE IF SelBox(box).width < 5 /\ SelBox(box).height < 5 THEN prev
    ELSE prev \o SelectSeq(hit, LAMBDA id : id \notin Range(prev))

\* App.tsx: what handleStageMouseUp makes of the selection prev; hit are the
\* layers whose nodes meet the box
StageMouseUpSelection(mode, box, prev, hit) ==
    IF mode # "images" \/ ~box.visible THEN prev
    ELSE IF SelBox(box).width < 5 /\ SelBox(box).height < 5 THEN prev
    ELSE hit

\* App.tsx: handleStageMouseUp (onPointerUp of the Stage)
handleStageMouseUp ==
    /\ selectionBox' =
         IF appMode = "images" /\ selectionBox.visible
         THEN [selectionBox EXCEPT !.visible = FALSE]
         ELSE selectionBox
    /\ selectedShapeIds' =
         StageMouseUpSelection(appMode, selectionBox, selectedShapeIds,
                               BoxSelectedIds(AppState, SelBox(selectionBox)))
    /\ lastCall' = [NoCall EXCEPT !.op = "pointerUp",
                                  !.target = IF /\ appMode = "images"
                                                /\ selectionBox.visible
                                                /\ ~(/\ SelBox(selectionBox).width < 5
                                                     /\ SelBox(selectionBox).height < 5)
                                             THEN 1 ELSE 0]
    /\ UNCHANGED <<images, nextImageId, imageReads>>
    /\ StoreFrame(Cur) /\ UNCHANGED extVars /\ RenderedKonva

StagePointerUp == handleStageMouseUp

\* C35: in every reachable state the selection holds no id twice and only ids
\* of layers of the store, whatever the uploads, load completions, clicks,
\* modifier clicks, box selections, sidebar selections and removals were.
C35_SelectionInStore ==
    /\ Range(selectedShapeIds) \subseteq LayerIds(images)
    /\ \A i, j \in 1..Len(selectedShapeIds) :
            selectedShapeIds[i] = selectedShapeIds[j] => i = j

\* a selected layer was removed and another layer is still selected
C35_Witness ==
    /\ lastCall.op = "remove" /\ lastCall.target = 1
    /\ selectedShapeIds # <<>>

\* the drawn layers whose bounding rectangle and the rectangle between the two
\* corners of the drag have a point in common (thousandths of a pixel)
LayersInBox(box) ==
    {id \in DrawnLayerIds :
        LET n == ImageNode(images[FindIndex(images, id)], stageSize)
        IN  /\ Max(n.x, 1000 * Min(box.x1, box.x2))
                <= Min(n.x + n.width, 1000 * Max(box.x1, box.x2))
            /\ Max(n.y, 1000 * Min(box.y1, box.y2))
                <= Min(n.y + n.height, 1000 * Max(box.y1, box.y2))}

\* C36: a pointer-up that ends a drag of the selection rectangle in images
\* mode replaces the selection by exactly the layers whose bounding rectangle
\* intersects the dragged rectangle, be it none; a drag of less than 5 pixels
\* in both width and height leaves the selection unchanged, and so does every
\* pointer-up in points mode.
C36_BoxSelect ==
    [][lastCall'.op = "pointerUp" =>
        IF appMode = "images" /\ selectionBox.visible
           /\ ~(/\ Abs(selectionBox.x2 - selectionBox.x1) < 5
                /\ Abs(selectionBox.y2 - selectionBox.y1) < 5)
        THEN /\ Range(selectedShapeIds') = LayersInBox(selectionBox)
             /\ Len(selectedShapeIds') = Cardinality(LayersInBox(selectionBox))
        ELSE selectedShapeIds' = selectedShapeIds]_vars

\* a drag ended that meets one of two drawn layers, while the other one was
\* the selection
C36_Witness ==
    /\ lastCall.op = "pointerUp" /\ lastCall.target = 1
    /\ Cardinality(DrawnLayerIds) = 2
    /\ Len(selectedShapeIds) = 1
    /\ \E i \in 1..Len(images) :
            images[i].id = selectedShapeIds[1] /\ images[i].relX = Num(250)

(***************************************************************************)
(* Geometry: the stage follows its container (App.tsx), and the handlers   *)
(* of Canvas.tsx write the geometry of a Konva node back as relative       *)
(* fields.  A gesture is what the user did to the node before the handler  *)
(* ran: 0 nothing, 1 something (a rotation to 90 degrees, a move to the    *)
(* quarter of the stage), 2 a move that leaves the node's origin a quarter *)
(* of the stage left of and above the stage (a layer is draggable without  *)
(* a dragBoundFunc).  Pointer positions are in pixels.                     *)
(***************************************************************************)
\* offsetWidth and offsetHeight the container can take
ContainerSizes == {<<1000, 1000>>, <<500, 500>>, <<1000, 500>>, <<250, 250>>}

\* App.tsx: calculateStageSize called by the ResizeObserver
Resize(container) ==
    /\ container # containerSize
    /\ containerSize' = container
    /\ stageSize' = CalculateStageSize(container, baseImage)
    /\ lastCall' = [NoCall EXCEPT !.op = "resize"]
    /\ Apply(Render(Cur, Cur))
    /\ UNCHANGED <<baseLoads, nextElement, nextPointId, maskVars>>
    /\ UNCHANGED <<layerStore, layerTasks, tasksStarted, serviceVars>>
    /\ AfterRender

ContainerResized == \E container \in ContainerSizes : Resize(container)

\* the Konva node of a drawn layer after the gesture
Rotated(node, gesture) == IF gesture = 1 THEN [node EXCEPT !.rotation = 90] ELSE node

Moved(node, gesture, stage) ==
    CASE gesture = 1 -> [node EXCEPT !.x = 250 * stage[1], !.y = 250 * stage[2]]
      [] gesture = 2 -> [node EXCEPT !.x = (0 - 250) * stage[1], !.y = (0 - 250) * stage[2]]
      [] OTHER -> node

\* Canvas.tsx: the relative attributes handleTransformEnd passes on; the node's
\* scale is 1 unless the user resized it
TransformEndAttrs(node, stage) ==
    [relX |-> Num(node.x \div stage[1]),
     relY |-> Num(node.y \div stage[2]),
     relWidth |-> Num(Max(MIN_RENDER_PIXEL_SIZE * 1000, node.width) \div stage[1]),
     relHeight |-> Num(Max(MIN_RENDER_PIXEL_SIZE * 1000, node.height) \div stage[2]),
     rotation |-> Num(node.rotation)]

\* Canvas.tsx: the relative attributes handleDragEnd passes on
DragEndAttrs(node, stage) ==
    [NoAttrs EXCEPT !.relX = Num(node.x \div stage[1]),
                    !.relY = Num(node.y \div stage[2])]

\* Canvas.tsx: handleTransformEnd for the node of a layer the transformer is
\* attached to, then handleUpdateImageTransform of App.tsx
handleTransformEnd(id, gesture) ==
    /\ ValidStage(stageSize)
    /\ id \in DrawnLayerIds /\ id \in Range(selectedShapeIds)
    /\ LET node == Rotated(ImageNode(images[FindIndex(images, id)], stageSize), gesture)
           attrs == TransformEndAttrs(node, stageSize)
       IN  /\ images' = UpdateImageTransform(images, id, attrs)
           /\ lastCall' = [op |-> "transformEnd", id |-> id, target |-> gesture,
                           attrs |-> attrs]
    /\ UNCHANGED <<selectedShapeIds, nextImageId, imageReads>>
    /\ LayerFrame(Cur)

TransformEnd == \E id \in DrawnLayerIds, gesture \in {0, 1} : handleTransformEnd(id, gesture)

\* Canvas.tsx: handleDragEnd for the node of a layer, then
\* handleUpdateImageTransform of App.tsx
handleDragEnd(id, gesture) ==
    /\ appMode = "images" /\ ValidStage(stageSize)
    /\ id \in DrawnLayerIds
    /\ LET node == Moved(ImageNode(images[FindIndex(images, id)], stageSize), gesture,
                         stageSize)
           attrs == DragEndAttrs(node, stageSize)
       IN  /\ images' = UpdateImageTransform(images, id, attrs)
           /\ lastCall' = [op |-> "dragEnd", id |-> id, target |-> gesture,
                           attrs |-> attrs]
    /\ UNCHANGED <<selectedShapeIds, nextImageId, imageReads>>
    /\ LayerFrame(Cur)

DragEnd == \E id \in DrawnLayerIds, gesture \in {0, 1, 2} : handleDragEnd(id, gesture)

\* the layers of L are those of imgs, each at its relative position times the
\* stage size and, clamp being 0, of its relative size times the stage size
ScaledBy(L, imgs, stage, clamp) ==
    \A i \in 1..Len(L) :
        L[i].kind = "layer" =>
            LET t == imgs[FindIndex(imgs, L[i].id)]
            IN  /\ L[i].x = t.relX.v * stage[1]
                /\ L[i].y = t.relY.v * stage[2]
                /\ L[i].width = Max(clamp, t.relWidth.v * stage[1])
                /\ L[i].height = Max(clamp, t.relHeight.v * stage[2])

ResizeStep(s, n, clamp) ==
    /\ n.images = s.images
    /\ n.points = s.points
    /\ ScaledBy(Screen(n), n.images, n.stageSize, clamp)

\* C18 as claimed: a resize of the viewport changes no stored relative field of
\* a layer or point, and every layer is drawn at its relative position and with
\* its relative size multiplied by the new stage size.
C18_ProportionalToStage ==
    [][lastCall'.op = "resize" => ResizeStep(AppState, NextAppState, 0)]_vars

\* C18, amended: a resize of the viewport changes no stored relative field of
\* a layer or point; every layer is drawn at its relative position multiplied by
\* the new stage size, and with its relative size multiplied by the new stage
\* size or MIN_RENDER_PIXEL_SIZE, whichever is larger.
C18_ProportionalOrMinimum ==
    [][lastCall'.op = "resize" =>
            ResizeStep(AppState, NextAppState, MIN_RENDER_PIXEL_SIZE * 1000)]_vars

\* the stage was resized and a layer is drawn higher than its relative height
\* times the stage height
C18_Witness ==
    /\ lastCall.op = "resize"
    /\ \E i \in 1..Len(images) :
        /\ IsRendered(images[i])
        /\ images[i].relHeight.v * stageSize[2] < MIN_RENDER_PIXEL_SIZE * 1000
        /\ DrawnIn(Screen(AppState), images[i].id)

\* C19: a layer drawn and then written back by the drag-end or transform-end
\* handler, the user having changed nothing, keeps its stored relX, relY,
\* relWidth and relHeight.
C19_RoundTrip ==
    [][(lastCall'.op \in {"transformEnd", "dragEnd"} /\ lastCall'.target = 0) =>
        \A i \in 1..Len(images) :
            \A f \in {"relX", "relY", "relWidth", "relHeight"} :
                images'[i][f] = images[i][f]]_vars

\* Math.max(0, Math.min(1, x)) on thousandths
ClampUnit(x) == Max(0, Min(1000, x))

\* Canvas.tsx: handleInternalStageClick in points mode, for the pointer at pos
\* of a stage filled by the base image: the relative coordinates it passes to
\* onAddPoint, <<>> for a click it ignores
StageClickPoint(pos, stage) ==
    IF pos[1] < 0 \/ pos[1] > stage[1] \/ pos[2] < 0 \/ pos[2] > stage[2]
    THEN <<>>
    ELSE <<ClampUnit((pos[1] * 1000) \div stage[1]),
           ClampUnit((pos[2] * 1000) \div stage[2])>>

\* App.tsx: the x and y handleAddPoint stores for the coordinates it is given
AddPointCoords(rel) == <<ClampUnit(rel[1]), ClampUnit(rel[2])>>

\* pointer positions on, at the border of and outside a stage
PointerPositions(stage) ==
    {<<x, y>> : x \in {0 - 1, 0, stage[1] \div 2, stage[1], stage[1] + 1},
                y \in {0 - 1, 0, stage[2] \div 2, stage[2], stage[2] + 1}}

InUnit(x) == 0 <= x /\ x <= 1000

\* C29 (toRelative clamps): every relative coordinate computed from a pixel
\* position and stored lies in [0,1]: the x and y of a point on a click, for
\* every pointer position, and the relX and relY a drag end or a transform end
\* stores for a layer, for every position of its node.
C29_RelativeClamped ==
    /\ [](ValidStage(stageSize) =>
            \A pos \in PointerPositions(stageSize) :
                LET rel == StageClickPoint(pos, stageSize)
                IN  rel # <<>> => InUnit(AddPointCoords(rel)[1])
                                  /\ InUnit(AddPointCoords(rel)[2]))
    /\ [][lastCall'.op \in {"transformEnd", "dragEnd"} =>
            LET t == images'[FindIndex(images', lastCall'.id)]
            IN  InUnit(t.relX.v) /\ InUnit(t.relY.v)]_vars

\* the relative size that is MIN_RENDER_PIXEL_SIZE pixels of a stage
MinimumRelSize(stage) ==
    [relWidth |-> Num((MIN_RENDER_PIXEL_SIZE * 1000) \div stage[1]),
     relHeight |-> Num((MIN_RENDER_PIXEL_SIZE * 1000) \div stage[2])]

\* C30 (the minimum rendered size is enforced only when drawing): no step, a
\* render pass or the transform-end handler, replaces the stored relWidth or
\* relHeight of a layer by the value derived from the minimum pixel size; a
\* layer whose size is below the minimum keeps its stored relative size.
C30_MinimumOnlyWhenDrawing ==
    [][ValidStage(stageSize) =>
        \A i \in 1..Len(images) :
            \A f \in {"relWidth", "relHeight"} :
                images'[i][f] # images[i][f]
                    => images'[i][f] # MinimumRelSize(stageSize)[f]]_vars

(***************************************************************************)
(* Placement of a new layer (App.tsx): handleUploadImage stores the        *)
(* placeholder, handleLoadImageImage the size, for the stage of the time.  *)
(***************************************************************************)
\* <<naturalWidth, naturalHeight>> of a layer's element: wide, tall, square,
\* a strip, and the empty element of a failed load
PlacedNaturalSizes == {<<400, 200>>, <<200, 400>>, <<300, 300>>, <<400, 20>>, <<0, 0>>}

\* offsetWidth and offsetHeight of the container, a very small one included
PlacedContainerSizes == ContainerSizes \cup {<<10, 10>>}

PlacedUpload == nextImageId <= MaxGeoLayers /\ handleUploadImage

PlacedElementLoaded ==
    \E id \in LayerIds(images), natural \in PlacedNaturalSizes :
        handleLoadImageImage(id, natural)

\* App.tsx: handleLoadImageImage for a layer that has its konvaImage: the
\* element Canvas.tsx began to load before a task stored the layer's
\* konvaImage loads afterwards
handleLateLoadImageImage(id, natural) ==
    /\ id \in LayerIds(images)
    /\ images[FindIndex(images, id)].konvaImage # 0
    /\ images' = [i \in 1..Len(images) |->
                    IF images[i].id = id /\ images[i].konvaImage = 0
                    THEN LoadImageImage(images[i], natural, stageSize)
                    ELSE images[i]]
    /\ lastCall' = [NoCall EXCEPT !.op = "lateLoad", !.id = id,
                                  !.attrs = NaturalSizeOf(natural)]
    /\ UNCHANGED <<selectedShapeIds, nextImageId, imageReads>>
    /\ LayerFrame(Cur)

PlacedLateLoad ==
    \E id \in LayerIds(images), natural \in PlacedNaturalSizes :
        handleLateLoadImageImage(id, natural)

PlacedResized == \E container \in PlacedContainerSizes : Resize(container)

\* the middle of the node is the middle of the stage (thousandths of a pixel)
Centred(node, stage) ==
    /\ 2 * node.x + node.width = 1000 * stage[1]
    /\ 2 * node.y + node.height = 1000 * stage[2]

\* the size a layer of natural size natural is to get on the stage: the longer
\* side 20% of the stage's, the other side by the aspect ratio, each at least
\* MIN_INITIAL_PIXEL_SIZE pixels, and each relative size within [0.01, 1]
TargetSize(t, natural, stage) ==
    LET wide == natural[1] >= natural[2]
        long == IF wide THEN stage[1] \div 5 ELSE stage[2] \div 5
        short == IF wide THEN (long * natural[2]) \div natural[1]
                 ELSE (long * natural[1]) \div natural[2]
        absWidth == Max(20, IF wide THEN long ELSE short)
        absHeight == Max(20, IF wide THEN short ELSE long)
    IN  /\ t.relWidth.v = Max(10, Min(1000, (absWidth * 1000) \div stage[1]))
        /\ t.relHeight.v = Max(10, Min(1000, (absHeight * 1000) \div stage[2]))

\* C31 (default placement of a new layer): once the pixel dimensions of a new
\* layer are known it is centred in the viewport, its longer side is 20% of
\* the corresponding viewport dimension and the other side follows the aspect
\* ratio of the source image, each absolute dimension being at least 20
\* pixels and each stored relative dimension within [0.01, 1]; a later load
\* event for a layer that has decoded pixels does not change its size.
C31_DefaultPlacement ==
    [][ /\ (lastCall'.op = "load" /\ lastCall'.attrs.relWidth.v > 0 /\ ValidStage(stageSize))
            => LET t == images'[FindIndex(images', lastCall'.id)]
                   natural == <<lastCall'.attrs.relWidth.v, lastCall'.attrs.relHeight.v>>
               IN  /\ TargetSize(t, natural, stageSize)
                   /\ Centred(ImageNode(t, stageSize), stageSize)
        /\ lastCall'.op = "lateLoad" => images' = images ]_vars

(***************************************************************************)
(* Backend negotiation (useTransformers.ts): loadSam and loadBgRemoval.    *)
(* One step is one turn of the while loop: from_pretrained for the backend *)
(* at backendIndex resolves or rejects, and what follows without another   *)
(* await.  SamLoaded and BgRemovalLoaded above are these loops reduced to  *)
(* their success.                                                          *)
(***************************************************************************)
\* backends.length
NumBackends == 12

\* A mutation of BackendFailed: backendIndex is not advanced
BackendFailedRetry(l) == l

\* A mutation of BackendFailed: the loop gives up before the last backend
BackendFailedGiveUpEarly(l) ==
    [l EXCEPT !.backendIndex = @ + 1,
              !.state = IF l.backendIndex + 2 >= NumBackends THEN "failed" ELSE "loading"]

\* the catch of the inner try, and the test at the top of the loop
BackendFailed(l) ==
    [l EXCEPT !.backendIndex = @ + 1,
              !.state = IF l.backendIndex + 1 = NumBackends THEN "failed" ELSE "loading"]

\* the inner try for the backend at backendIndex
TryBackend(l, ok) ==
    IF ok THEN [l EXCEPT !.tried = Append(@, l.backendIndex), !.state = "ready"]
    ELSE BackendFailed([l EXCEPT !.tried = Append(@, l.backendIndex)])

\* useTransformers.ts: a turn of the loop of loadSam
SamBackendTried(ok) ==
    /\ samLoad.state = "loading"
    /\ samLoad' = TryBackend(samLoad, ok)
    /\ Apply(Commit(Cur, [Cur EXCEPT
            !.isSamReady = IF samLoad'.state = "loading" THEN @
                           ELSE samLoad'.state = "ready",
            !.status = IF samLoad'.state = "loading" THEN @
                       ELSE IF samLoad'.state = "failed"
                            THEN "Error loading SAM: No backend available!"
                       ELSE IF bgLoad.state = "ready" THEN "All AI models ready."
                       ELSE "SAM ready. Loading BG Removal..."],
                    FALSE))
    /\ lastCall' = NoCall
    /\ UNCHANGED <<baseLoads, nextElement, nextPointId, stageSize>>
    /\ UNCHANGED <<layerStore, maskVars, containerSize, layerTasks, tasksStarted>>
    /\ UNCHANGED <<isBgRemovalReady, bgLoad>>
    /\ AfterRender

SamBackend == \E ok \in BOOLEAN : SamBackendTried(ok)

\* A mutation of BgBackendTried: background removal waits for SAM's negotiation
BgBackendTriedAfterSam(ok) ==
    /\ samLoad.state # "loading"
    /\ bgLoad.state = "loading"
    /\ bgLoad' = TryBackend(bgLoad, ok)
    /\ isBgRemovalReady' = IF bgLoad'.state = "loading" THEN isBgRemovalReady
                           ELSE bgLoad'.state = "ready"
    /\ StoreFrame([Cur EXCEPT
            !.status = IF bgLoad'.state = "loading" THEN @
                       ELSE IF bgLoad'.state = "failed"
                            THEN "Error loading BG Removal: No backend available!"
                       ELSE IF samLoad.state = "ready" THEN "All AI models ready."
                       ELSE "BG Removal ready. Waiting for SAM..."])
    /\ lastCall' = NoCall
    /\ UNCHANGED <<layerStore, containerSize, layerTasks, tasksStarted, samLoad>>
    /\ AfterRender

\* useTransformers.ts: a turn of the loop of loadBgRemoval
BgBackendTried(ok) ==
    /\ bgLoad.state = "loading"
    /\ bgLoad' = TryBackend(bgLoad, ok)
    /\ isBgRemovalReady' = IF bgLoad'.state = "loading" THEN isBgRemovalReady
                           ELSE bgLoad'.state = "ready"
    /\ StoreFrame([Cur EXCEPT
            !.status = IF bgLoad'.state = "loading" THEN @
                       ELSE IF bgLoad'.state = "failed"
                            THEN "Error loading BG Removal: No backend available!"
                       ELSE IF samLoad.state = "ready" THEN "All AI models ready."
                       ELSE "BG Removal ready. Waiting for SAM..."])
    /\ lastCall' = NoCall
    /\ UNCHANGED <<layerStore, containerSize, layerTasks, tasksStarted, samLoad>>
    /\ AfterRender

BgBackend == \E ok \in BOOLEAN : BgBackendTried(ok)

\* the attempts made so far are the backends 0, 1, 2, ... in this order
InListOrder(l) == \A i \in 1..Len(l.tried) : l.tried[i] = i - 1

\* a step of the negotiation l to n, ready and nowReady being the service's flag
NegotiationStep(l, n, ready, nowReady) ==
    /\ InListOrder(n)
    /\ n.tried # l.tried =>
            /\ l.state = "loading"
            /\ n.tried = Append(l.tried, l.backendIndex)
    /\ n.backendIndex # l.backendIndex =>
            /\ n.backendIndex = l.backendIndex + 1
            /\ n.tried = Append(l.tried, l.backendIndex)
            /\ n.state # "ready"
    /\ l.state = "ready" => n = l
    /\ n.state = "ready" => n.tried[Len(n.tried)] = n.backendIndex
    /\ nowReady => n.state = "ready"
    /\ (nowReady /\ ~ready) => (l.state = "loading" /\ n.tried # l.tried)

\* C20: each service tries the backends in list order, each at most once, goes
\* on to the next one only after the current one failed, tries none after the
\* first that succeeded, and its ready flag is true only after a success.
C20_BackendNegotiation ==
    [][/\ NegotiationStep(samLoad, samLoad', isSamReady, isSamReady')
       /\ NegotiationStep(bgLoad, bgLoad', isBgRemovalReady, isBgRemovalReady')]_vars

\* SAM is ready on its third backend, background removal found none
C20_Witness ==
    /\ isSamReady /\ samLoad.state = "ready" /\ samLoad.tried = <<0, 1, 2>>
    /\ ~isBgRemovalReady /\ bgLoad.state = "failed" /\ Len(bgLoad.tried) = NumBackends

\* a step of the negotiation l to n that ends it, or follows its end: nowReady is
\* the service's flag and reported says the status is the service's error
ExhaustionStep(l, n, nowReady, reported) ==
    /\ Len(n.tried) <= NumBackends
    /\ n.state = "loading" => Len(n.tried) < NumBackends
    /\ n # l => Len(n.tried) = Len(l.tried) + 1
    /\ n.state = "failed" => (Len(n.tried) = NumBackends /\ ~nowReady)
    /\ (l.state = "loading" /\ n.state = "failed") => reported
    /\ l.state = "failed" => n = l

\* C21: every attempt is one more of at most NumBackends; when every backend
\* failed the loop ends right after the attempt number NumBackends, the service's
\* ready flag is false then and ever after, the status is then the service's
\* "No backend available!" error, and the service makes no attempt afterwards.
C21_NegotiationTerminates ==
    [][/\ ExhaustionStep(samLoad, samLoad', isSamReady',
                         status' = "Error loading SAM: No backend available!")
       /\ ExhaustionStep(bgLoad, bgLoad', isBgRemovalReady',
                         status' = "Error loading BG Removal: No backend available!")]_vars

\* both services ran out of backends, background removal last
C21_Witness ==
    /\ samLoad.state = "failed" /\ bgLoad.state = "failed"
    /\ Len(samLoad.tried) = NumBackends /\ Len(bgLoad.tried) = NumBackends
    /\ ~isSamReady /\ ~isBgRemovalReady
    /\ status = "Error loading BG Removal: No backend available!"

\* each service's flag is a function of its own negotiation, and while a service
\* negotiates, each outcome of its next attempt is possible
OwnOutcomesOnly ==
    /\ isSamReady <=> samLoad.state = "ready"
    /\ isBgRemovalReady <=> bgLoad.state = "ready"
    /\ samLoad.state = "loading" => \A ok \in BOOLEAN : ENABLED SamBackendTried(ok)
    /\ bgLoad.state = "loading" => \A ok \in BOOLEAN : ENABLED BgBackendTried(ok)

\* C22: the two negotiations are independent.  A service's ready flag is decided
\* by its own attempts only: an attempt of one service changes neither the other's
\* negotiation nor its flag, and a service's next attempt can succeed or fail
\* whatever the state of the other (negotiating, ready or failed).
C22_IndependentNegotiation ==
    /\ []OwnOutcomesOnly
    /\ [][/\ samLoad' # samLoad => (bgLoad' = bgLoad /\ isBgRemovalReady' = isBgRemovalReady)
          /\ bgLoad' # bgLoad => (samLoad' = samLoad /\ isSamReady' = isSamReady)]_vars

\* background removal is ready while SAM, three backends down, still negotiates
C22_Witness ==
    /\ isBgRemovalReady /\ bgLoad.state = "ready"
    /\ ~isSamReady /\ samLoad.state = "loading" /\ Len(samLoad.tried) = 3

\* the error statuses of the services whose negotiation is exhausted
ExhaustedStatuses ==
    (IF samLoad.state = "failed"
     THEN {"Error loading SAM: No backend available!"} ELSE {}) \cup
    (IF bgLoad.state = "failed"
     THEN {"Error loading BG Removal: No backend available!"} ELSE {})

\* C23: once the negotiation of a service is exhausted, the status reports the
\* failure of an exhausted service in every later state.
C23_PersistentFailureStatus ==
    ExhaustedStatuses # {} => status \in ExhaustedStatuses

(***************************************************************************)
(* Export (App.tsx): handleTriggerSave and saveStageImage.  One step is    *)
(* the click on Save, up to the setTimeout, or the callback of the timer.  *)
(***************************************************************************)
\* the base images of the export specification: "C" was read from a file of
\* no known type
ExportSrcs == Srcs \cup {"C"}

\* the media type a data URL states, as FileReader.readAsDataURL writes it
DataUrlType(src) ==
    CASE src = "A" -> <<"image", "jpeg">>
      [] src = "B" -> <<"image", "png">>
      [] OTHER -> <<"application", "octet-stream">>

\* App.tsx: mime of saveStageImage, from baseImage.src.match(/data:image\/(.+);base64,/)
SaveMime(src) ==
    IF DataUrlType(src)[1] = "image" /\ DataUrlType(src)[2] # ""
    THEN IF DataUrlType(src)[2] = "jpeg" THEN "jpg" ELSE DataUrlType(src)[2]
    ELSE "png"

\* App.tsx: the mimeType stage.toDataURL is given
SaveMimeType(src) == <<"image", SaveMime(src)>>

\* Canvas.tsx: the transformer of the stage: visible, and the layers attached
TransformerNode(s, k) ==
    IF k.transformer.set THEN k.transformer
    ELSE LET T == renderTransformer(CanvasProps(s))
         IN  IF T = <<>> THEN NoTransformerWrite
             ELSE [set |-> FALSE, visible |-> T[1].nodes # <<>>, nodes |-> T[1].nodes]

\* the node of an item of the draw list
NodeOf(item) == <<item.kind, item.id>>

\* what is drawn on the stage: the draw list without the hidden nodes (the
\* selection rectangle is visible only while the pointer drags it)
VisibleItems(s, k) ==
    LET visible(item) ==
            CASE item.kind \in {"point", "mask"} -> NodeOf(item) \notin k.hidden
              [] item.kind = "selectionRect" -> FALSE
              [] item.kind = "transformer" -> TransformerNode(s, k).visible
              [] OTHER -> TRUE
    IN  SelectSeq(Screen(s), visible)

\* stage.find(node => selectedShapeIds.includes(node.id()) && node.hasName("image"))
SelectedImageNodes(s, selected) ==
    LET L == renderImages(CanvasProps(s))
        ids == [i \in 1..Len(L) |-> L[i].id]
    IN  SelectSeq(ids, LAMBDA id : id \in Range(selected))

\* App.tsx: nodesToTemporarilyHide of saveStageImage
HideForSave(s, k) ==
    (IF s.appMode = "images" /\ TransformerNode(s, k).visible
     THEN {<<"transformer", 0>>} ELSE {})
    \cup (MountedNodes(CanvasProps(s)) \ k.hidden)

\* Sidebar.tsx: Save button; App.tsx: handleTriggerSave, saveStageImage up to
\* the setTimeout
handleTriggerSave ==
    /\ baseImage # NoImage /\ ~SidebarProcessing     \* Sidebar.tsx: button enabled
    /\ ValidStage(stageSize)                         \* stageRef.current
    /\ Len(saveTimeouts) < MaxPendingSaves
    /\ saving' = TRUE
    /\ LET nodesToTemporarilyHide == HideForSave(AppState, konva)
       IN  /\ konva' = [hidden |-> konva.hidden \cup
                                      (nodesToTemporarilyHide \ {<<"transformer", 0>>}),
                        transformer |->
                            IF <<"transformer", 0>> \in nodesToTemporarilyHide
                            THEN [set |-> TRUE, visible |-> FALSE, nodes |-> <<>>]
                            ELSE konva.transformer]
           /\ saveTimeouts' = Append(saveTimeouts,
                    [nodesToTemporarilyHide |-> nodesToTemporarilyHide,
                     transformer |-> appMode = "images",
                     selectedShapeIds |-> triggerSaveSelection,
                     src |-> baseImage.src,
                     mutated |-> FALSE])
    /\ lastCall' = [NoCall EXCEPT !.op = "triggerSave"]
    /\ UNCHANGED <<triggerSaveSelection, lastExport, selectionBox>>
    /\ UNCHANGED <<sessionVars, layerStore, maskVars, stageSize, extVars>>

\* App.tsx: the finally of the callback cb
RestoreAfterSave(s, k, cb) ==
    [hidden |-> k.hidden \ cb.nodesToTemporarilyHide,
     transformer |->
        IF cb.transformer
        THEN [set |-> TRUE,
              visible |-> SelectedImageNodes(s, cb.selectedShapeIds) # <<>>,
              nodes |-> SelectedImageNodes(s, cb.selectedShapeIds)]
        ELSE k.transformer]

\* App.tsx: the callback saveStageImage gave setTimeout; the timers run in the
\* order they were set; ok = FALSE: stage.toDataURL throws
SaveTimeout(ok) ==
    /\ saveTimeouts # <<>>
    /\ LET cb == Head(saveTimeouts)
       IN  /\ lastExport' = IF ok
                            THEN [captured |-> VisibleItems(AppState, konva),
                                  src |-> cb.src,
                                  mime |-> SaveMime(cb.src),
                                  mimeType |-> SaveMimeType(cb.src)]
                            ELSE lastExport
           /\ konva' = RestoreAfterSave(AppState, konva, cb)
    /\ saveTimeouts' = Tail(saveTimeouts)
    /\ saving' = FALSE
    /\ lastCall' = [NoCall EXCEPT !.op = "saveTimeout", !.target = IF ok THEN 1 ELSE 0]
    /\ UNCHANGED <<triggerSaveSelection, selectionBox>>
    /\ UNCHANGED <<sessionVars, layerStore, maskVars, stageSize, extVars>>

SaveTimedOut == \E ok \in BOOLEAN : SaveTimeout(ok)

\* the pixels captured from the state s show no selection affordance, no point
\* marker and no highlight overlay, and the clip overlay if s draws it
CaptureClean(items, s) ==
    /\ \A i \in 1..Len(items) :
            items[i].kind \notin {"transformer", "selectionRect", "point", "mask"}
    /\ (\E i \in 1..Len(items) : items[i].kind = "clip")
            <=> renderClippingOverlay(CanvasProps(s)) # <<>>

\* C24: whenever an export captures pixels, the transformer, the selection
\* rectangle, the point markers and the highlight overlay are hidden and the
\* clip overlay is drawn as the state says, for every sequence of save triggers
\* (the exports during which the selection or the mode changed are left out).
C24_ExportHidesAffordances ==
    [][(/\ lastCall'.op = "saveTimeout" /\ lastCall'.target = 1
        /\ ~Head(saveTimeouts).mutated)
            => CaptureClean(lastExport'.captured, AppState)]_vars

\* the node is drawn, if its item is in the draw list of s
NodeVisible(node, s, k) ==
    IF node[1] = "transformer"
    THEN s.appMode = "images" => TransformerNode(s, k).visible
    ELSE node \notin k.hidden

\* C25: the callback of every export restores: afterwards every node this
\* export hid is visible again and saving is false, and the export has changed
\* neither the points, the layers, the mask nor the clip toggle.
C25_ExportRestores ==
    [][lastCall'.op = "saveTimeout" =>
            /\ \A node \in Head(saveTimeouts).nodesToTemporarilyHide :
                    NodeVisible(node, NextAppState, konva')
            /\ ~saving'
            /\ UNCHANGED <<segmentationPoints, images, maskData, clipImagesGlobally>>]_vars

\* the transformer is attached to exactly the layers of the selection that
\* are drawn, and is visible if there is one
AttachedToSelection(s, k) ==
    s.appMode = "images" =>
        /\ Range(TransformerNode(s, k).nodes)
                = Range(SelectedImageNodes(s, s.selectedShapeIds))
        /\ TransformerNode(s, k).visible
                <=> SelectedImageNodes(s, s.selectedShapeIds) # <<>>

\* C26: when the selection or the mode changed between the suppress and the
\* restore of an export, the state after the restore is the one of the latest
\* change: the transformer is attached to the layers of the current selection.
C26_LastWriterWins ==
    [][(lastCall'.op = "saveTimeout" /\ Head(saveTimeouts).mutated)
            => AttachedToSelection(NextAppState, konva')]_vars

\* C27: the MIME type of an export is the image type the data URL of the base
\* image states (image/jpeg for a data:image/jpeg upload), and image/png when
\* it states none.
C27_MimeFromUpload ==
    lastExport # NoExport =>
        lastExport.mimeType = IF DataUrlType(lastExport.src)[1] = "image"
                              THEN DataUrlType(lastExport.src)
                              ELSE <<"image", "png">>

(***************************************************************************)
(* Initial state: the state after the first render of App.                 *)
(***************************************************************************)
SessionInit(mode) ==
    /\ appMode = mode
    /\ baseImage = NoImage
    /\ segmentationPoints = <<>>
    /\ maskData = NoMask
    /\ showMask = TRUE
    /\ clipImagesGlobally = FALSE
    /\ isGeneratingEmbeddings = FALSE
    /\ isSamReady = FALSE
    /\ status = "Loading BG Removal pipeline..."
    /\ baseLoads = <<>>
    /\ embReqs = <<>>
    /\ segReqs = <<>>
    /\ nextElement = 1
    /\ nextPointId = 1
    /\ containerSize = <<1000, 1000>>
    /\ stageSize = CalculateStageSize(containerSize, NoImage)
    /\ isBgRemovalReady = FALSE
    /\ samLoad = NoLoad
    /\ bgLoad = NoLoad

InitSession == SessionInit("points")

InitLayers ==
    /\ images = <<>>
    /\ selectedShapeIds = <<>>
    /\ nextImageId = 1
    /\ imageReads = {}
    /\ lastCall = NoCall
    /\ layerTasks = <<>>
    /\ tasksStarted = 0
    /\ InitExport

InitMask ==
    /\ segIn = NoSegIn
    /\ segOut = NoSegOut

Init == InitSession /\ InitLayers /\ InitMask

Next ==
    \/ SamLoaded
    \/ UploadBaseImage
    \/ BaseImageSettled
    \/ EmbeddingsDone
    \/ handleAddPoint
    \/ RemovePoint
    \/ SegmentationDone
    \/ handleToggleMask
    \/ handleToggleGlobalClip
    \/ handleToggleMode

Spec == Init /\ [][Next]_vars

\* the layer store with up to MaxLayers layers, without transforms
NextLayers ==
    \/ handleToggleMode
    \/ handleUploadImage
    \/ ImageReadSettled
    \/ RemoveImage
    \/ DropImage

SpecLayers == Init /\ [][NextLayers]_vars

\* the layer read from its file, and what it is once its element settled
LayerVariants(id) ==
    {ReadImage(Placeholder(id), src) : src \in LayerSrcs}
    \cup {LoadImageImage(ReadImage(Placeholder(id), src), natural, stage) :
            src \in LayerSrcs, natural \in NaturalSizes, stage \in StageSizes}

\* the stores of up to MaxPatchLayers layers, uploaded and read in images mode
PatchStores ==
    UNION {{s \in [1..n -> UNION {LayerVariants(id) : id \in 1..n}] :
                \A i \in 1..n : s[i].id = i} : n \in 0..MaxPatchLayers}

\* the transforms of the layers of such a store; the layer uploaded last is
\* the selected one
InitTransform ==
    /\ SessionInit("images")
    /\ images \in PatchStores
    /\ selectedShapeIds = IF images = <<>> THEN <<>> ELSE <<Len(images)>>
    /\ nextImageId = Len(images) + 1
    /\ imageReads = {}
    /\ lastCall = NoCall
    /\ layerTasks = <<>>
    /\ tasksStarted = 0
    /\ InitExport
    /\ InitMask

NextTransform == TransformImage

SpecTransform == InitTransform /\ [][NextTransform]_vars

\* mask selection over every list of 1..MaxCandidates scores in 0..MaxScore,
\* with one mask plane per score
ScoreLists == UNION {[1..n -> 0..MaxScore] : n \in 1..MaxCandidates}

InitSelect ==
    /\ InitSession /\ InitLayers
    /\ segIn \in {[scores |-> s, numMasks |-> Len(s),
                   data |-> [i \in 1..(Len(s) * NumPixels) |-> 0],
                   baseAlpha |-> [i \in 1..NumPixels |-> 255]] : s \in ScoreLists}
    /\ segOut = NoSegOut

NextSelect == PostProcess

SpecSelect == InitSelect /\ [][NextSelect]_vars

\* mask construction over every tensor of 1..MaxMasks planes, every base image
\* alpha, and the score lists of up to MaxMasks + 1 scores with entries 0 or 1
ClipScoreLists == UNION {[1..n -> 0..1] : n \in 1..(MaxMasks + 1)}

InitClip ==
    /\ InitSession /\ InitLayers
    /\ \E s \in ClipScoreLists, n \in 1..MaxMasks :
          \E d \in [1..(n * NumPixels) -> 0..1], a \in [1..NumPixels -> AlphaValues] :
              segIn = [scores |-> s, numMasks |-> n, data |-> d, baseAlpha |-> a]
    /\ segOut = NoSegOut

NextClip == PostProcess

SpecClip == InitClip /\ [][NextClip]_vars

\* A layer of the task specification: its read failed, or it was read, or its
\* element loaded as well.
TaskVariants(id) ==
    {Placeholder(id),
     ReadImage(Placeholder(id), "P"),
     LoadImageImage(ReadImage(Placeholder(id), "P"), <<400, 200>>, <<1000, 1000>>)}

\* the stores of up to MaxTaskLayers such layers, uploaded in images mode
TaskStores ==
    UNION {{s \in [1..n -> UNION {TaskVariants(id) : id \in 1..n}] :
                \A i \in 1..n : s[i].id = i} : n \in 1..MaxTaskLayers}

InitTasks ==
    /\ SessionInit("images") /\ InitMask
    /\ images \in TaskStores
    /\ selectedShapeIds = <<>>
    /\ nextImageId = Len(images) + 1
    /\ imageReads = {}
    /\ lastCall = NoCall
    /\ layerTasks = <<>>
    /\ tasksStarted = 0
    /\ InitExport

\* background removal and tinting of these layers
NextTasks ==
    \/ BgRemovalLoaded
    \/ ImageElementLoaded
    \/ MoveImage
    \/ RemoveBackground
    \/ AddColor
    \/ TaskDone

SpecTasks == InitTasks /\ [][NextTasks]_vars

\* The tasks of up to MaxGeoLayers layers, which may be removed meanwhile.
\* removeBackground is awaited and the replacement image is given its src right
\* after, so a task that has begun is settled by the service and the browser
\* whatever else goes on: weak fairness of TaskDone.
InitTasksLive ==
    /\ SessionInit("images") /\ InitMask
    /\ images \in {s \in TaskStores : Len(s) <= MaxGeoLayers}
    /\ selectedShapeIds = <<>>
    /\ nextImageId = Len(images) + 1
    /\ imageReads = {}
    /\ lastCall = NoCall
    /\ layerTasks = <<>>
    /\ tasksStarted = 0
    /\ InitExport

NextTasksLive ==
    \/ BgRemovalLoaded
    \/ ImageElementLoaded
    \/ RemoveBackground
    \/ AddColor
    \/ TaskDone
    \/ RemoveImage

\* layers are uploaded, read, loaded, tinted, stripped of their background and
\* removed, and what was begun for a removed layer completes
RemovalUpload == nextImageId <= MaxTaskLayers /\ handleUploadImage

\* one file and one natural size will do here
RemovalReadSettled == \E id \in imageReads : ImageRead(id, "P") \/ ImageReadFailed(id)

RemovalElementLoaded == \E id \in LayerIds(images) : handleLoadImageImage(id, <<400, 200>>)

NextRemoval ==
    \/ RemovalUpload
    \/ RemovalReadSettled
    \/ RemovalElementLoaded
    \/ BgRemovalLoaded
    \/ RemoveBackground
    \/ AddColor
    \/ TaskDone
    \/ RemoveImage
    \/ RemoveImageAnyTime
    \/ RemovedElementLoaded

SpecRemoval == InitTasksLive /\ [][NextRemoval]_vars

SpecTasksLive == InitTasksLive /\ [][NextTasksLive]_vars /\ WF_vars(TaskDone)

\* the selection of the layers of such stores, and the mode
InitModes ==
    /\ SessionInit("images") /\ InitMask
    /\ images \in PatchStores
    /\ selectedShapeIds = <<>>
    /\ nextImageId = Len(images) + 1
    /\ imageReads = {}
    /\ lastCall = NoCall
    /\ layerTasks = <<>>
    /\ tasksStarted = 0
    /\ InitExport

\* (the base image is uploaded from one file: its src plays no part in the
\* selection or the mode)
NextModes ==
    \/ SamLoaded
    \/ handleUploadBaseImage("A")
    \/ BaseImageSettled
    \/ EmbeddingsDone
    \/ handleToggleMode
    \/ SelectShapeFromSidebar
    \/ StageClick

SpecModes == InitModes /\ [][NextModes]_vars

\* a base image with its embeddings, one point and the mask computed from it
SegmentedBaseOf(src) ==
    [src |-> src, element |-> 1, embeddings |-> 1, processedResult |-> 1]

SegmentedBase == SegmentedBaseOf("A")

\* App after uploads in images mode, with one of these base images
ViewInitOf(stores, bases) ==
    /\ appMode = "images"
    /\ baseImage \in bases
    /\ segmentationPoints = IF baseImage = NoImage THEN <<>> ELSE <<1>>
    /\ maskData = IF baseImage = NoImage THEN NoMask ELSE [element |-> 1, points |-> <<1>>]
    /\ showMask = TRUE
    /\ clipImagesGlobally = FALSE
    /\ isGeneratingEmbeddings = FALSE
    /\ isSamReady = TRUE
    /\ status = IF baseImage = NoImage THEN "SAM ready. Loading BG Removal..."
                ELSE "Segmentation done."
    /\ baseLoads = <<>> /\ embReqs = <<>> /\ segReqs = <<>>
    /\ nextElement = IF baseImage = NoImage THEN 1 ELSE 2
    /\ nextPointId = IF baseImage = NoImage THEN 1 ELSE 2
    /\ containerSize = <<1000, 1000>>
    /\ stageSize = CalculateStageSize(containerSize, baseImage)
    /\ isBgRemovalReady = FALSE
    /\ samLoad = NoLoad /\ bgLoad = NoLoad
    /\ InitMask
    /\ images \in stores
    /\ selectedShapeIds = <<>>
    /\ nextImageId = Len(images) + 1
    /\ imageReads = {}
    /\ lastCall = NoCall
    /\ layerTasks = <<>>
    /\ tasksStarted = 0
    /\ InitExport

\* App after uploads in images mode, with or without a base image
ViewInit(stores) == ViewInitOf(stores, {NoImage, SegmentedBase})

\* a layer of the draw specification: read, or its element loaded as well
DrawVariants(id) ==
    {ReadImage(Placeholder(id), "P"),
     LoadImageImage(ReadImage(Placeholder(id), "P"), <<400, 200>>, <<1000, 1000>>)}

\* the stores of up to MaxDrawLayers such layers
DrawStores ==
    UNION {{s \in [1..n -> UNION {DrawVariants(id) : id \in 1..n}] :
                \A i \in 1..n : s[i].id = i} : n \in 0..MaxDrawLayers}

InitDraw == ViewInit(DrawStores)

\* Sidebar.tsx: a layer of the list dropped on another one
DropOnImage ==
    \E draggedId, droppedOnId \in LayerIds(images) :
        handleReorderImages(draggedId, droppedOnId)

\* what changes the draw list, or might
NextDraw ==
    \/ BgRemovalLoaded
    \/ handleToggleMode
    \/ handleToggleMask
    \/ handleToggleGlobalClip
    \/ DropOnImage
    \/ SelectShapeFromSidebar
    \/ MoveImage

SpecDraw == InitDraw /\ [][NextDraw]_vars

\* a layer of the geometry specification: as its element loaded, or resized
\* by the user to 10 by 5 pixels of a stage of 1000 by 1000
GeoVariants(id) ==
    {LoadImageImage(ReadImage(Placeholder(id), "P"), <<400, 200>>, <<1000, 1000>>),
     [LoadImageImage(ReadImage(Placeholder(id), "P"), <<400, 200>>, <<1000, 1000>>)
        EXCEPT !.relWidth = Num(10), !.relHeight = Num(5)]}

\* the stores of up to MaxGeoLayers such layers
GeoStores ==
    UNION {{s \in [1..n -> UNION {GeoVariants(id) : id \in 1..n}] :
                \A i \in 1..n : s[i].id = i} : n \in 1..MaxGeoLayers}

InitGeometry == ViewInit(GeoStores)

NextGeometry ==
    \/ ContainerResized
    \/ SelectShapeFromSidebar
    \/ TransformEnd
    \/ DragEnd

SpecGeometry == InitGeometry /\ [][NextGeometry]_vars

\* the stores of up to MaxGeoLayers layers, their elements loaded
ExportStores ==
    {[i \in 1..n |-> LoadImageImage(ReadImage(Placeholder(i), "P"),
                                    <<400, 200>>, <<1000, 1000>>)] : n \in 0..MaxGeoLayers}

\* a base image of each type with its mask, and such layers.  handleTriggerSave
\* is the one of the render that stored the embeddings (InitExport: no selection).
InitSave == ViewInitOf(ExportStores, {SegmentedBaseOf(src) : src \in ExportSrcs})

\* exports, and what the sidebar lets the user do meanwhile
NextExport ==
    \/ handleTriggerSave
    \/ SaveTimedOut
    \/ SelectShapeFromSidebar
    \/ handleToggleMode
    \/ handleToggleGlobalClip

SpecExport == InitSave /\ [][NextExport]_vars

\* the two negotiations, started by the first render
NextBackend ==
    \/ SamBackend
    \/ BgBackend

SpecBackend == Init /\ [][NextBackend]_vars

\* the layer store empty, in images mode, with or without a base image
InitPlacement == ViewInit({<<>>})

NextPlacement ==
    \/ PlacedUpload
    \/ ImageReadSettled
    \/ PlacedElementLoaded
    \/ PlacedLateLoad
    \/ PlacedResized

SpecPlacement == InitPlacement /\ [][NextPlacement]_vars

\* up to MaxDrawLayers layers are uploaded, selected, moved and removed
PointerUpload == nextImageId <= MaxDrawLayers /\ handleUploadImage

InitPointer == ViewInitOf({<<>>}, {NoImage})

NextPointer ==
    \/ PointerUpload
    \/ ImageReadSettled
    \/ ImageElementLoaded
    \/ RemoveImage
    \/ handleToggleMode
    \/ SelectShapeFromSidebar
    \/ StageClick
    \/ MoveImage
    \/ StagePointerDown
    \/ StagePointerMove
    \/ StagePointerUp

SpecPointer == InitPointer /\ [][NextPointer]_vars

====
